---- MODULE Spec2Model ----
(***************************************************************************)
(* Session lifecycle and cross-modality context bridging of the           *)
(* contextual-agent SDK: SessionStateManager (core/ToolManager.ts,        *)
(* lines 241-569) over the in-memory storage provider                     *)
(* (storage/StorageFactory.ts, lines 128-307).                            *)
(*                                                                         *)
(* Strings are TLA+ strings; the code's string functions (includes,       *)
(* toLowerCase, substring, join, the e-mail regular expression) are       *)
(* computed character by character.  Scores (importance, confidence) are  *)
(* kept in tenths: 0.5 is 5.  Dates are integers (milliseconds).          *)
(***************************************************************************)
EXTENDS Integers, Sequences, FiniteSets, TLC

VARIABLES
  store,      \* MemoryStorageProvider.sessions: sessionId -> SessionState
  now,        \* the wall clock read by `new Date()`
  calls,      \* public calls made on the manager after the scripted opening
  nUpdates,   \* per session: updateSession calls that returned since it was created
  nSwitches,  \* per session: those of them that named another modality than the current one
  script,     \* calls left of the scripted opening of the run (0: the callers are free)
  opening,    \* which messages the scripted opening sends ("rotating" or "dated")
  inserted,   \* per session: id, importance and timestamp of every message its turns inserted
  last,       \* the call that returned last: its arguments, outcome and storage traffic
  objects,    \* concurrent use: the metadata objects and the entities and conversationFlow
              \* arrays that stored sessions and their copies refer to
  inflight,   \* concurrent use: per caller, the call it has made and what the call holds
  solo,       \* concurrent use: per session, the store its calls alone would have produced
  raced,      \* concurrent use: the sessions on which two calls were in flight together
  echo,       \* concurrent use: what the call that returned last returned, and what it
              \* would have returned with its session's calls alone
  router,     \* ModalityRouter: its config and its isProcessing flag
  pending,    \* ModalityRouter: per caller, the processMessage call awaiting its result
  reply,      \* ModalityRouter: the operation that returned last and what it gave
  heard,      \* ModalityRouter: the inputs transcribed by the mock, each with the text given
  bridge,     \* ContextBridge: its cache
  bridgeLog,  \* ContextBridge: the calls of bridgeContext made, each with what it returned
  agent,      \* ContextualAgent: whether it has an llmManager
  answer,     \* ContextualAgent: the call that returned last and its AgentResponse
  turns,      \* ContextualAgent: per session, the successful processMessage calls since
              \* the session was created
  manager,    \* ContextManager: its providers, in the order of its Map
  fetch,      \* ContextManager: the getContext call in flight
  fetched,    \* ContextManager: the getContext call of the agent's latest processMessage,
              \* once it has returned, and what it gave
  waiting,    \* ContextualAgent: the processMessage call waiting for getContext
  handed      \* the session object a caller holds from a call that returned one: the
              \* object, what it read when handed over, whether its context is the
              \* stored session's context object

seqVars == <<nUpdates, nSwitches, script, opening, inserted, last>>
raceVars == <<objects, inflight, solo, raced, echo, handed>>
routerVars == <<router, pending, reply, heard>>
bridgeVars == <<bridge, bridgeLog>>
agentVars == <<agent, answer, turns>>
contextVars == <<manager, fetch, fetched, waiting>>
vars == <<store, now, calls, seqVars, raceVars, routerVars, bridgeVars, agentVars, contextVars>>

\* the value of a variable in the runs that do not use it
Unused == "<unused>"

----------------------------------------------------------------------------
(* Bounds of the model *)

MaxCalls == 4
MaxWarmCalls == 3
WarmTurns == 49

----------------------------------------------------------------------------
(* Program constants *)

MemoryBankCap == 50
FlowCap == 20
RecentCount == 3
ImportantLength == 100
TruncateLength == 100
SliceCount == 3
BaseScore == 5
QuestionBonus == 3
LengthBonus == 2
SystemPenalty == 3
EmailConfidence == 9

Undefined == "<undefined>"
Modalities == {"text", "voice"}
SessionIds == {"s1"}

----------------------------------------------------------------------------
(* JavaScript strings *)

CharAt(s, i) == SubSeq(s, i, i)

\* String.prototype.includes
Includes(s, sub) ==
  \E i \in 1..(Len(s) - Len(sub) + 1) : SubSeq(s, i, i + Len(sub) - 1) = sub

UpperChars == "ABCDEFGHIJKLMNOPQRSTUVWXYZ"
LowerChars == "abcdefghijklmnopqrstuvwxyz"
DigitChars == "0123456789"

CharsOf(s) == {CharAt(s, i) : i \in 1..Len(s)}

UpperSet == CharsOf(UpperChars)
LowerSet == CharsOf(LowerChars)
DigitSet == CharsOf(DigitChars)

IsUpper(c) == c \in UpperSet
IsLower(c) == c \in LowerSet
IsDigit(c) == c \in DigitSet

LowerOf == [c \in UpperSet |->
              CharAt(LowerChars, CHOOSE i \in 1..Len(UpperChars) : CharAt(UpperChars, i) = c)]

ToLowerChar(c) == IF IsUpper(c) THEN LowerOf[c] ELSE c

RECURSIVE LowerRange(_, _, _)
\* the characters lo..hi of s in lower case (halving keeps the nesting shallow)
LowerRange(s, lo, hi) ==
  IF lo > hi THEN ""
  ELSE IF lo = hi THEN ToLowerChar(CharAt(s, lo))
  ELSE LET mid == (lo + hi) \div 2
       IN  LowerRange(s, lo, mid) \o LowerRange(s, mid + 1, hi)

\* String.prototype.toLowerCase
ToLowerCase(s) == LowerRange(s, 1, Len(s))

\* String.prototype.substring(0, n)
Substring0(s, n) == IF Len(s) <= n THEN s ELSE SubSeq(s, 1, n)

RECURSIVE JoinFrom(_, _, _)
JoinFrom(parts, sep, i) ==
  IF i > Len(parts) THEN ""
  ELSE IF i = Len(parts) THEN parts[i]
  ELSE parts[i] \o sep \o JoinFrom(parts, sep, i + 1)

\* Array.prototype.join
Join(parts, sep) == JoinFrom(parts, sep, 1)

\* Array.prototype.slice(0, n)
Slice0(seq, n) == IF Len(seq) <= n THEN seq ELSE SubSeq(seq, 1, n)

\* Array.prototype.slice(-n)
SliceLast(seq, n) == IF Len(seq) <= n THEN seq ELSE SubSeq(seq, Len(seq) - n + 1, Len(seq))

\* Array.prototype.sort is stable: elements the comparator calls equal keep
\* their order.  The elements are tagged with their index, and an element
\* goes before another when the comparator's result c is negative, or is 0
\* and its index is the lower one.
Tagged(seq) == [i \in 1..Len(seq) |-> <<seq[i], i>>]
Untagged(tagged) == [i \in 1..Len(tagged) |-> tagged[i][1]]
StableBefore(c, x, y) == c < 0 \/ (c = 0 /\ x[2] < y[2])

Min(a, b) == IF a < b THEN a ELSE b
Max(a, b) == IF a > b THEN a ELSE b

----------------------------------------------------------------------------
(* The e-mail pattern of extractEntities:                                  *)
(*   /\b[A-Za-z0-9._%+-]+@[A-Za-z0-9.-]+\.[A-Z|a-z]{2,}\b/g                *)

AlnumSet == UpperSet \cup LowerSet \cup DigitSet
WordSet == AlnumSet \cup {"_"}
LocalSet == AlnumSet \cup {".", "_", "%", "+", "-"}
DomainSet == AlnumSet \cup {".", "-"}
TldSet == UpperSet \cup LowerSet \cup {"|"}

SetMax(S) == CHOOSE x \in S : \A y \in S : y <= x
SetMin(S) == CHOOSE x \in S : \A y \in S : x <= y

\* \b between positions i-1 and i of s
WordBoundary(s, i) ==
  LET before == i > 1 /\ CharAt(s, i - 1) \in WordSet
      after  == i <= Len(s) /\ CharAt(s, i) \in WordSet
  IN  before # after

RECURSIVE RunEnd(_, _, _)
\* last position of the longest run of characters of `class` that starts at i
\* (i - 1 when s[i] is not in the class)
RunEnd(s, i, class) ==
  IF i > Len(s) \/ CharAt(s, i) \notin class THEN i - 1 ELSE RunEnd(s, i + 1, class)

\* The end of the match that starts at i, 0 when there is none.  Every
\* quantifier is greedy: the local part is the whole run (a shorter one is
\* not followed by "@"), the domain gives back up to its last usable ".",
\* and the top-level part gives back until \b holds.
MatchEmailAt(s, i) ==
  LET le == RunEnd(s, i, LocalSet)
      de == RunEnd(s, le + 2, DomainSet)
      Ends(d) == {e \in (d + 2)..RunEnd(s, d + 1, TldSet) : WordBoundary(s, e + 1)}
      dots == {d \in (le + 3)..de : CharAt(s, d) = "." /\ Ends(d) # {}}
  IN  IF /\ WordBoundary(s, i)
         /\ le >= i
         /\ le < Len(s)
         /\ CharAt(s, le + 1) = "@"
         /\ dots # {}
        THEN SetMax(Ends(SetMax(dots)))
        ELSE 0

RECURSIVE MatchEmailsFrom(_, _)
\* the matches found from position i on: the leftmost start that matches,
\* then the search goes on behind that match
MatchEmailsFrom(s, i) ==
  LET starts == {j \in i..Len(s) : MatchEmailAt(s, j) > 0}
  IN  IF starts = {} THEN <<>>
      ELSE LET j == SetMin(starts)
               e == MatchEmailAt(s, j)
           IN  <<SubSeq(s, j, e)>> \o MatchEmailsFrom(s, e + 1)

\* content.match(emailRegex): every match, left to right, none overlapping
MatchEmails(s) == MatchEmailsFrom(s, 1)

----------------------------------------------------------------------------
(* SessionStateManager: private helpers.  A helper that mutates the       *)
(* session it is handed returns the session after the mutation.           *)

createEmptyContext ==
  [topic |-> Undefined, entities |-> <<>>, conversationFlow |-> <<>>, memoryBank |-> <<>>]

createEmptyMetadata ==
  [modalitySwitches |-> 0, averageResponseTime |-> 0]

\* !x for a string-or-undefined value
Falsy(x) == x = Undefined \/ x = ""

calculateImportance(message) ==
  LET s0 == BaseScore
      s1 == IF Includes(message.content, "?") THEN s0 + QuestionBonus ELSE s0
      s2 == IF Len(message.content) > ImportantLength THEN s1 + LengthBonus ELSE s1
      s3 == IF message.role = "system" THEN s2 - SystemPenalty ELSE s2
  IN  Max(0, Min(10, s3))

extractTags(content) ==
  (IF Includes(content, "question") \/ Includes(content, "?") THEN <<"question">> ELSE <<>>)
  \o (IF Includes(content, "help") \/ Includes(content, "support") THEN <<"help">> ELSE <<>>)

extractEntities(content) ==
  LET emails == MatchEmails(content)
  IN  [i \in 1..Len(emails) |->
        [name |-> emails[i], type |-> "email", value |-> emails[i],
         confidence |-> EmailConfidence, source |-> "text"]]

detectTopic(content) ==
  LET lowercaseContent == ToLowerCase(content)
  IN  IF Includes(lowercaseContent, "order") \/ Includes(lowercaseContent, "shipping")
        THEN "order_management"
      ELSE IF Includes(lowercaseContent, "account") \/ Includes(lowercaseContent, "profile")
        THEN "account_management"
      ELSE "general"

\* the eviction comparator with the timestamps swapped: among equal
\* importance the oldest goes first
ByImportance_OldestFirst(a, b) ==
  IF b.importance - a.importance # 0
    THEN b.importance - a.importance
    ELSE a.timestamp - b.timestamp

\* the comparator of the eviction sort: importance descending, then newest first
ByImportance(a, b) ==
  IF b.importance - a.importance # 0
    THEN b.importance - a.importance
    ELSE b.timestamp - a.timestamp

\* the comparator of the recency sorts: newest first
ByRecency(a, b) == b.timestamp - a.timestamp

\* memories.sort(by importance, then recency)
SortByImportance(memories) ==
  Untagged(SortSeq(Tagged(memories),
                   LAMBDA x, y : StableBefore(ByImportance(x[1], y[1]), x, y)))

\* memories.sort(by recency)
SortByRecency(memories) ==
  Untagged(SortSeq(Tagged(memories),
                   LAMBDA x, y : StableBefore(ByRecency(x[1], y[1]), x, y)))

\* memoryBank.filter(m => m.modality === modality)
OfModality(memories, modality) == SelectSeq(memories, LAMBDA m : m.modality = modality)

\* addToMemoryBank with the result of sort(...).slice(0, 50) thrown away
addToMemoryBank_SliceDiscarded(session, message) ==
  LET memory == [id |-> message.id,
                 content |-> message.content,
                 importance |-> calculateImportance(message),
                 timestamp |-> message.timestamp,
                 tags |-> extractTags(message.content),
                 modality |-> message.modality]
      pushed == Append(session.context.memoryBank, memory)
  IN  [session EXCEPT !.context.memoryBank =
        IF Len(pushed) > MemoryBankCap
          THEN SortByImportance(pushed)
          ELSE pushed]

\* addToMemoryBank that, past 50, keeps the new item and the 49 best others
addToMemoryBank_KeepsNew(session, message) ==
  LET memory == [id |-> message.id,
                 content |-> message.content,
                 importance |-> calculateImportance(message),
                 timestamp |-> message.timestamp,
                 tags |-> extractTags(message.content),
                 modality |-> message.modality]
      pushed == Append(session.context.memoryBank, memory)
  IN  [session EXCEPT !.context.memoryBank =
        IF Len(pushed) > MemoryBankCap
          THEN Append(Slice0(SortByImportance(session.context.memoryBank),
                             MemoryBankCap - 1), memory)
          ELSE pushed]

addToMemoryBank(session, message) ==
  LET memory == [id |-> message.id,
                 content |-> message.content,
                 importance |-> calculateImportance(message),
                 timestamp |-> message.timestamp,
                 tags |-> extractTags(message.content),
                 modality |-> message.modality]
      pushed == Append(session.context.memoryBank, memory)
  IN  [session EXCEPT !.context.memoryBank =
        IF Len(pushed) > MemoryBankCap
          THEN Slice0(SortByImportance(pushed), MemoryBankCap)
          ELSE pushed]

\* the merge with the `existing` lookup made in the entities the session had
\* before this message (a second occurrence in the message is not seen)
MergeEntities_StaleLookup(known, entities, i, modality) ==
  LET Existing(entity) == \E k \in 1..Len(known) :
                            known[k].name = entity.name /\ known[k].type = entity.type
      fresh == SelectSeq(entities, LAMBDA entity : ~Existing(entity))
  IN  known \o [k \in 1..Len(fresh) |-> [fresh[k] EXCEPT !.source = modality]]

RECURSIVE MergeEntities(_, _, _, _)
\* the forEach of updateContextFromMessage over entities[i..]
MergeEntities(known, entities, i, modality) ==
  IF i > Len(entities) THEN known
  ELSE LET entity == entities[i]
           existing == \E k \in 1..Len(known) :
                         known[k].name = entity.name /\ known[k].type = entity.type
       IN  MergeEntities(
             IF ~existing THEN Append(known, [entity EXCEPT !.source = modality]) ELSE known,
             entities, i + 1, modality)

\* updateContextFromMessage without the `if (!session.context.topic)` guard
updateContextFromMessage_Redetect(session, message) ==
  LET entities == extractEntities(message.content)
      merged == MergeEntities(session.context.entities, entities, 1, message.modality)
  IN  [session EXCEPT !.context.entities = merged,
                      !.context.topic = detectTopic(message.content)]

updateContextFromMessage(session, message) ==
  LET entities == extractEntities(message.content)
      merged == MergeEntities(session.context.entities, entities, 1, message.modality)
      topic == IF Falsy(session.context.topic)
                 THEN detectTopic(message.content)
                 ELSE session.context.topic
  IN  [session EXCEPT !.context.entities = merged, !.context.topic = topic]

\* addFlowState with slice(0, 20): the newest entry is the one dropped
addFlowState_KeepOldest(session, step, modality, data, date) ==
  LET flowState == [step |-> step, modality |-> modality, timestamp |-> date, data |-> data]
      pushed == Append(session.context.conversationFlow, flowState)
  IN  [session EXCEPT !.context.conversationFlow =
        IF Len(pushed) > FlowCap THEN Slice0(pushed, FlowCap) ELSE pushed]

addFlowState(session, step, modality, data, date) ==
  LET flowState == [step |-> step, modality |-> modality, timestamp |-> date, data |-> data]
      pushed == Append(session.context.conversationFlow, flowState)
  IN  [session EXCEPT !.context.conversationFlow =
        IF Len(pushed) > FlowCap THEN SliceLast(pushed, FlowCap) ELSE pushed]

Contents(memories) == [i \in 1..Len(memories) |-> memories[i].content]

\* sorts session.context.memoryBank in place and returns the joined contents
getRecentContext(session, count) ==
  LET sorted == SortByRecency(session.context.memoryBank)
      recentMemories == Slice0(sorted, count)
  IN  [session |-> [session EXCEPT !.context.memoryBank = sorted],
       text |-> Join(Contents(recentMemories), "\n")]

IndexLabel(n) == CharAt(DigitChars, n + 1)

RECURSIVE NumberedFrom(_, _)
NumberedFrom(memories, i) ==
  IF i > Len(memories) THEN ""
  ELSE IndexLabel(i) \o ". " \o memories[i].content \o "\n" \o NumberedFrom(memories, i + 1)

\* bridgeVoiceToText without the fallback: no voice memory, no context
bridgeVoiceToText_NoFallback(session) ==
  LET recentVoiceMemories ==
        Slice0(SortByRecency(OfModality(session.context.memoryBank, "voice")), SliceCount)
  IN  IF Len(recentVoiceMemories) = 0
        THEN [session |-> session, text |-> ""]
        ELSE [session |-> session,
              text |-> "Previous voice conversation context:\n"
                       \o NumberedFrom(recentVoiceMemories, 1)
                       \o "\nNow switching to text mode - please provide structured responses."]

bridgeVoiceToText(session) ==
  LET recentVoiceMemories ==
        Slice0(SortByRecency(OfModality(session.context.memoryBank, "voice")), SliceCount)
  IN  IF Len(recentVoiceMemories) = 0
        THEN getRecentContext(session, RecentCount)
        ELSE [session |-> session,
              text |-> "Previous voice conversation context:\n"
                       \o NumberedFrom(recentVoiceMemories, 1)
                       \o "\nNow switching to text mode - please provide structured responses."]

Truncated(content) ==
  IF Len(content) > TruncateLength THEN Substring0(content, TruncateLength) \o "..." ELSE content

bridgeTextToVoice(session) ==
  LET recentTextMemories ==
        Slice0(SortByRecency(OfModality(session.context.memoryBank, "text")), SliceCount)
      topics == Join([i \in 1..Len(recentTextMemories) |->
                        Truncated(recentTextMemories[i].content)], ". ")
  IN  IF Len(recentTextMemories) = 0
        THEN getRecentContext(session, RecentCount)
        ELSE [session |-> session,
              text |-> "We were just discussing: " \o topics
                       \o ". Now switching to voice conversation - please speak naturally."]

----------------------------------------------------------------------------
(* MemoryStorageProvider: a Map from sessionId to SessionState             *)

EmptyStore == [id \in {} |-> Undefined]

\* Map.prototype.set
MapSet(map, key, value) ==
  [k \in DOMAIN map \cup {key} |-> IF k = key THEN value ELSE map[k]]

\* Map.prototype.delete
MapDelete(map, key) == [k \in DOMAIN map \ {key} |-> map[k]]

\* the copy handed out by getSession: dates and memory items are rebuilt
cloneSession(session) ==
  [session EXCEPT
     !.startTime = session.startTime,
     !.lastActivity = session.lastActivity,
     !.context.memoryBank =
        [i \in 1..Len(session.context.memoryBank) |->
           [session.context.memoryBank[i] EXCEPT
              !.timestamp = session.context.memoryBank[i].timestamp]]]

StorageHas(sessions, sessionId) == sessionId \in DOMAIN sessions

StorageGetSession(sessions, sessionId) == cloneSession(sessions[sessionId])

\* createSession that keeps the entry the Map already has
StorageCreateSession_IfAbsent(sessions, sessionId, session) ==
  IF StorageHas(sessions, sessionId) THEN sessions ELSE MapSet(sessions, sessionId, session)

StorageCreateSession(sessions, sessionId, session) == MapSet(sessions, sessionId, session)

\* updateSession that writes only over an entry the Map has
StorageUpdateSession_IfPresent(sessions, sessionId, session) ==
  IF StorageHas(sessions, sessionId) THEN MapSet(sessions, sessionId, session) ELSE sessions

StorageUpdateSession(sessions, sessionId, session) == MapSet(sessions, sessionId, session)

\* deleteSession that empties the Map (as shutdown does)
StorageDeleteSession_Clear(sessions, sessionId) == EmptyStore

StorageDeleteSession(sessions, sessionId) == MapDelete(sessions, sessionId)

----------------------------------------------------------------------------
(* SessionStateManager: public methods.  Each takes the stored sessions   *)
(* and the date of the call, and returns the sessions afterwards with     *)
(* what the caller gets and the storage calls it made.                    *)

NoSession == [sessionId |-> Undefined]

Outcome(sessions, error, session, text, flag, reads, writes) ==
  [sessions |-> sessions, error |-> error, session |-> session, text |-> text,
   flag |-> flag, reads |-> reads, writes |-> writes]

\* the not-found path that stores an empty session before it reports the error
NotFound_Upsert(sessions) ==
  Outcome([id \in SessionIds |->
             IF id \in DOMAIN sessions THEN sessions[id]
             ELSE [sessionId |-> id, userId |-> Undefined, startTime |-> 0,
                   lastActivity |-> 0, currentModality |-> "text", totalMessages |-> 0,
                   context |-> createEmptyContext, metadata |-> createEmptyMetadata]],
          "not_found", NoSession, "", FALSE, 1, 1)

NotFound(sessions) == Outcome(sessions, "not_found", NoSession, "", FALSE, 1, 0)

\* createSession without the get-before-create: it always builds and stores
createSession_AlwaysNew(sessions, sessionId, userId, date) ==
  LET session == [sessionId |-> sessionId,
                  userId |-> userId,
                  startTime |-> date,
                  lastActivity |-> date,
                  currentModality |-> "text",
                  totalMessages |-> 0,
                  context |-> createEmptyContext,
                  metadata |-> createEmptyMetadata]
  IN  Outcome(StorageCreateSession(sessions, sessionId, session),
              "none", session, "", FALSE, 0, 1)

createSession(sessions, sessionId, userId, date) ==
  IF StorageHas(sessions, sessionId)
    THEN Outcome(sessions, "none", StorageGetSession(sessions, sessionId), "", FALSE, 1, 0)
    ELSE LET session == [sessionId |-> sessionId,
                         userId |-> userId,
                         startTime |-> date,
                         lastActivity |-> date,
                         currentModality |-> "text",
                         totalMessages |-> 0,
                         context |-> createEmptyContext,
                         metadata |-> createEmptyMetadata]
         IN  Outcome(StorageCreateSession(sessions, sessionId, session),
                     "none", session, "", FALSE, 1, 1)

BridgeData(from, to) ==
  [from |-> from, to |-> to, bridgeType |-> from \o "_to_" \o to]

\* bridgeContextForModality that saves the session in the same-modality
\* branch too (after getRecentContext has sorted its memoryBank)
bridgeContextForModality_AlwaysSaves(sessions, sessionId, targetModality, date) ==
  IF ~StorageHas(sessions, sessionId) THEN NotFound(sessions)
  ELSE
    LET session == StorageGetSession(sessions, sessionId)
        currentModality == session.currentModality
    IN  IF currentModality = targetModality
          THEN LET recent == getRecentContext(session, RecentCount)
               IN  Outcome(StorageUpdateSession(sessions, sessionId, recent.session),
                           "none", NoSession, recent.text, FALSE, 1, 1)
          ELSE
            LET bridged ==
                  IF currentModality = "voice" /\ targetModality = "text"
                    THEN bridgeVoiceToText(session)
                  ELSE IF currentModality = "text" /\ targetModality = "voice"
                    THEN bridgeTextToVoice(session)
                  ELSE [session |-> session, text |-> ""]
                marked == addFlowState(bridged.session, "context_bridged", targetModality,
                                       BridgeData(currentModality, targetModality), date)
            IN  Outcome(StorageUpdateSession(sessions, sessionId, marked),
                        "none", NoSession, bridged.text, FALSE, 1, 1)

\* bridgeContextForModality that makes the target modality the current one
bridgeContextForModality_Switches(sessions, sessionId, targetModality, date) ==
  IF ~StorageHas(sessions, sessionId) THEN NotFound(sessions)
  ELSE
    LET session == StorageGetSession(sessions, sessionId)
        currentModality == session.currentModality
    IN  IF currentModality = targetModality
          THEN Outcome(sessions, "none", NoSession,
                       getRecentContext(session, RecentCount).text, FALSE, 1, 0)
          ELSE
            LET bridged ==
                  IF currentModality = "voice" /\ targetModality = "text"
                    THEN bridgeVoiceToText(session)
                  ELSE IF currentModality = "text" /\ targetModality = "voice"
                    THEN bridgeTextToVoice(session)
                  ELSE [session |-> session, text |-> ""]
                marked == addFlowState(bridged.session, "context_bridged", targetModality,
                                       BridgeData(currentModality, targetModality), date)
            IN  Outcome(StorageUpdateSession(sessions, sessionId,
                                             [marked EXCEPT !.currentModality = targetModality]),
                        "none", NoSession, bridged.text, FALSE, 1, 1)

bridgeContextForModality(sessions, sessionId, targetModality, date) ==
  IF ~StorageHas(sessions, sessionId) THEN NotFound(sessions)
  ELSE
    LET session == StorageGetSession(sessions, sessionId)
        currentModality == session.currentModality
    IN  IF currentModality = targetModality
          THEN Outcome(sessions, "none", NoSession,
                       getRecentContext(session, RecentCount).text, FALSE, 1, 0)
          ELSE
            LET bridged ==
                  IF currentModality = "voice" /\ targetModality = "text"
                    THEN bridgeVoiceToText(session)
                  ELSE IF currentModality = "text" /\ targetModality = "voice"
                    THEN bridgeTextToVoice(session)
                  ELSE [session |-> session, text |-> ""]
                marked == addFlowState(bridged.session, "context_bridged", targetModality,
                                       BridgeData(currentModality, targetModality), date)
            IN  Outcome(StorageUpdateSession(sessions, sessionId, marked),
                        "none", NoSession, bridged.text, FALSE, 1, 1)

SwitchData(from, to) == [from |-> from, to |-> to]

\* the switch tracking with the counter increment left out
TrackSwitch_NoCount(session, modality, date) ==
  IF session.currentModality # modality
    THEN addFlowState(session, "modality_switch", modality,
                      SwitchData(session.currentModality, modality), date)
    ELSE session

TrackSwitch(session, modality, date) ==
  IF session.currentModality # modality
    THEN addFlowState(
           [session EXCEPT !.metadata.modalitySwitches = @ + 1],
           "modality_switch", modality, SwitchData(session.currentModality, modality), date)
    ELSE session

\* updateSession that stores the message's modality as the current one
updateSession_MessageModality(sessions, sessionId, message, modality, date) ==
  IF ~StorageHas(sessions, sessionId) THEN NotFound(sessions)
  ELSE
    LET session == StorageGetSession(sessions, sessionId)
        tracked == TrackSwitch(session, modality, date)
        touched == [tracked EXCEPT !.currentModality = message.modality,
                                   !.totalMessages = @ + 1,
                                   !.lastActivity = date]
        remembered == addToMemoryBank(touched, message)
        updated == updateContextFromMessage(remembered, message)
    IN  Outcome(StorageUpdateSession(sessions, sessionId, updated),
                "none", updated, "", FALSE, 1, 1)

updateSession(sessions, sessionId, message, modality, date) ==
  IF ~StorageHas(sessions, sessionId) THEN NotFound(sessions)
  ELSE
    LET session == StorageGetSession(sessions, sessionId)
        tracked == TrackSwitch(session, modality, date)
        touched == [tracked EXCEPT !.currentModality = modality,
                                   !.totalMessages = @ + 1,
                                   !.lastActivity = date]
        remembered == addToMemoryBank(touched, message)
        updated == updateContextFromMessage(remembered, message)
    IN  Outcome(StorageUpdateSession(sessions, sessionId, updated),
                "none", updated, "", FALSE, 1, 1)

\* getSession: the copy the storage hands out, null when nothing is stored
Null == [sessionId |-> "<null>"]

getSession(sessions, sessionId) ==
  Outcome(sessions, "none",
          IF StorageHas(sessions, sessionId) THEN StorageGetSession(sessions, sessionId) ELSE Null,
          "", FALSE, 1, 0)

\* destroySession that reports the deletion and leaves the session stored
destroySession_FlagOnly(sessions, sessionId) ==
  Outcome(sessions, "none", NoSession, "", StorageHas(sessions, sessionId), 0, 1)

destroySession(sessions, sessionId) ==
  Outcome(StorageDeleteSession(sessions, sessionId), "none", NoSession, "",
          StorageHas(sessions, sessionId), 0, 1)

----------------------------------------------------------------------------
(* The callers' inputs *)

UserIds == {Undefined, "user-1"}

RECURSIVE NumberToString(_)
\* Number.prototype.toString for n >= 0
NumberToString(n) ==
  IF n < 10 THEN CharAt(DigitChars, n + 1)
  ELSE NumberToString(n \div 10) \o CharAt(DigitChars, (n % 10) + 1)

EmptyNote == [role |-> "user", modality |-> "voice", stale |-> FALSE, content |-> ""]

OrderQuestion ==
  [role |-> "user", modality |-> "text", stale |-> FALSE,
   content |-> "Where is my Order? It was due last week and the account page shows "
               \o "no tracking number, please help and write to a@x.io today"]

AccountNotice ==
  [role |-> "system", modality |-> "voice", stale |-> TRUE,
   content |-> "account a@x.io, b@y.org and a@x.io"]

Templates == <<EmptyNote, OrderQuestion, AccountNotice>>

\* A message built from a template at `date`; a stale one carries the epoch
\* as its timestamp (a replayed or back-dated message).
MakeMessage(template, date) ==
  [id |-> "msg-" \o NumberToString(date),
   role |-> template.role,
   content |-> template.content,
   modality |-> template.modality,
   timestamp |-> IF template.stale THEN 0 ELSE date]

NoMessage == [id |-> Undefined]

----------------------------------------------------------------------------
(* The state machine: one action per public method, each call atomic      *)
(* (sequential use).  A run may open with a script: createSession for     *)
(* WarmId, then updateSession turns with the templates in rotation and    *)
(* the modality alternating (every turn switches); after the script the   *)
(* callers choose freely: MaxCalls calls at most, MaxWarmCalls after an    *)
(* opening that took turns.  A "dated" opening sends no back-dated         *)
(* message: its turns alternate between the question and the empty note,  *)
(* each stamped with the date of its call.                                 *)

WarmId == "s1"
WarmUser == "user-1"
WarmTemplate(k) == (k % Len(Templates)) + 1
WarmModality(k) == IF k % 2 = 1 THEN "voice" ELSE "text"
DatedTemplate(k) == IF k % 2 = 1 THEN 2 ELSE 1
Openings == {"rotating", "dated"}

NoCall ==
  [op |-> "none", sessionId |-> Undefined, modality |-> Undefined, message |-> NoMessage,
   error |-> "none", session |-> NoSession, text |-> "", flag |-> FALSE,
   reads |-> 0, writes |-> 0, pre |-> EmptyStore]

Init ==
  /\ store = EmptyStore
  /\ now = 0
  /\ calls = 0
  /\ nUpdates = [id \in SessionIds |-> 0]
  /\ nSwitches = [id \in SessionIds |-> 0]
  /\ script \in {0, 1, WarmTurns + 1}
  /\ opening \in Openings
  /\ opening = "dated" => script = WarmTurns + 1
  /\ inserted = [id \in SessionIds |-> <<>>]
  /\ last = NoCall
  /\ objects = Unused
  /\ inflight = Unused
  /\ solo = Unused
  /\ raced = Unused
  /\ echo = Unused
  /\ handed = Unused
  /\ router = Unused
  /\ pending = Unused
  /\ reply = Unused
  /\ heard = Unused
  /\ bridge = Unused
  /\ bridgeLog = Unused
  /\ agent = Unused
  /\ answer = Unused
  /\ turns = Unused
  /\ manager = Unused
  /\ fetch = Unused
  /\ fetched = Unused
  /\ waiting = Unused

Scripted == script > 0

\* the opening took turns (every call advances the clock by one)
Warm == now > calls + 1

MayCall == Scripted \/ calls < (IF Warm THEN MaxWarmCalls ELSE MaxCalls)

Returned(op, sessionId, modality, message, out) ==
  /\ store' = out.sessions
  /\ now' = now + 1
  /\ calls' = IF Scripted THEN calls ELSE calls + 1
  /\ script' = IF Scripted THEN script - 1 ELSE script
  /\ opening' = opening
  /\ UNCHANGED <<raceVars, routerVars, bridgeVars, agentVars, contextVars>>
  /\ last' = [op |-> op, sessionId |-> sessionId, modality |-> modality, message |-> message,
              error |-> out.error, session |-> out.session, text |-> out.text,
              flag |-> out.flag, reads |-> out.reads, writes |-> out.writes, pre |-> store]

CreateSession ==
  /\ MayCall
  /\ Scripted => ~StorageHas(store, WarmId)
  /\ \E sessionId \in SessionIds, userId \in UserIds :
       LET fresh == ~StorageHas(store, sessionId)
       IN  /\ Scripted => sessionId = WarmId /\ userId = WarmUser
           /\ Returned("createSession", sessionId, Undefined, NoMessage,
                       createSession(store, sessionId, userId, now + 1))
           /\ nUpdates' = IF fresh THEN [nUpdates EXCEPT ![sessionId] = 0] ELSE nUpdates
           /\ nSwitches' = IF fresh THEN [nSwitches EXCEPT ![sessionId] = 0] ELSE nSwitches
           /\ inserted' = IF fresh THEN [inserted EXCEPT ![sessionId] = <<>>] ELSE inserted

UpdateSession ==
  /\ MayCall
  /\ Scripted => StorageHas(store, WarmId)
  /\ \E sessionId \in SessionIds, i \in 1..Len(Templates), modality \in Modalities :
       LET message == MakeMessage(Templates[i], now + 1)
           found == StorageHas(store, sessionId)
           switch == found /\ store[sessionId].currentModality # modality
       IN  /\ Scripted => /\ sessionId = WarmId
                          /\ i = IF opening = "dated"
                                   THEN DatedTemplate(nUpdates[WarmId] + 1)
                                   ELSE WarmTemplate(nUpdates[WarmId] + 1)
                          /\ modality = WarmModality(nUpdates[WarmId] + 1)
           /\ Returned("updateSession", sessionId, modality, message,
                       updateSession(store, sessionId, message, modality, now + 1))
           /\ nUpdates' = IF found THEN [nUpdates EXCEPT ![sessionId] = @ + 1] ELSE nUpdates
           /\ nSwitches' = IF switch THEN [nSwitches EXCEPT ![sessionId] = @ + 1] ELSE nSwitches
           /\ inserted' = IF found
                            THEN [inserted EXCEPT ![sessionId] =
                                    Append(@, [id |-> message.id,
                                               importance |-> calculateImportance(message),
                                               timestamp |-> message.timestamp])]
                            ELSE inserted

BridgeContextForModality ==
  /\ ~Scripted
  /\ MayCall
  /\ \E sessionId \in SessionIds, targetModality \in Modalities :
       /\ Returned("bridgeContextForModality", sessionId, targetModality, NoMessage,
                   bridgeContextForModality(store, sessionId, targetModality, now + 1))
       /\ UNCHANGED <<nUpdates, nSwitches, inserted>>

DestroySession ==
  /\ ~Scripted
  /\ MayCall
  /\ \E sessionId \in SessionIds :
       /\ Returned("destroySession", sessionId, Undefined, NoMessage,
                   destroySession(store, sessionId))
       /\ UNCHANGED <<nUpdates, nSwitches, inserted>>

GetSession ==
  /\ ~Scripted
  /\ MayCall
  /\ \E sessionId \in SessionIds :
       /\ Returned("getSession", sessionId, Undefined, NoMessage, getSession(store, sessionId))
       /\ UNCHANGED <<nUpdates, nSwitches, inserted>>

Next ==
  \/ CreateSession
  \/ UpdateSession
  \/ BridgeContextForModality
  \/ GetSession
  \/ DestroySession

Spec == Init /\ [][Next]_vars

----------------------------------------------------------------------------
(* Concurrent use.  The public methods are async: a call runs to its      *)
(* first await, where storage.getSession has already read the Map, and    *)
(* resumes later; what it does between two awaits is one step.  Callers   *)
(* make calls on any session while the other caller's call is in flight.  *)
(*                                                                         *)
(* cloneSession copies the session and its memoryBank but not the         *)
(* metadata object nor the entities and conversationFlow arrays: the      *)
(* stored session and every copy of it refer to the same ones.  Here a    *)
(* session holds references (indices into `objects`) in these three       *)
(* fields.  (\E x \in {e} binds x to the value of e.)                      *)

MaxRaceCalls == 3

RaceSessions == {"s1", "s2"}
Callers == {1, 2}
RaceTemplates == {2, 3}

NoObjects == [metadata |-> <<>>, entities |-> <<>>, conversationFlow |-> <<>>]

\* the session with the objects it refers to in place of the references
Deref(objs, session) ==
  [session EXCEPT !.metadata = objs.metadata[session.metadata],
                  !.context.entities = objs.entities[session.context.entities],
                  !.context.conversationFlow =
                     objs.conversationFlow[session.context.conversationFlow]]

\* a store that holds this one session
Single(session) == MapSet(EmptyStore, session.sessionId, session)

\* A session built by createSession: createEmptyContext and
\* createEmptyMetadata make a new metadata object and new arrays.
Allocate(objs, session) ==
  [objects |-> [metadata |-> Append(objs.metadata, session.metadata),
                entities |-> Append(objs.entities, session.context.entities),
                conversationFlow |-> Append(objs.conversationFlow,
                                            session.context.conversationFlow)],
   session |-> [session EXCEPT
                  !.metadata = Len(objs.metadata) + 1,
                  !.context.entities = Len(objs.entities) + 1,
                  !.context.conversationFlow = Len(objs.conversationFlow) + 1]]

\* What the synchronous part of a call that holds `held` leaves behind, when
\* it turned the session (with its objects in place) into `after`:
\* modalitySwitches++ and entities.push change the shared objects;
\* conversationFlow.push changes the shared array, and when that array then
\* holds more than 20 entries the call's session gets a new array, the slice.
Mutate(objs, held, after, pushed) ==
  LET flowRef == held.context.conversationFlow
      grown == IF pushed
                 THEN Append(objs.conversationFlow[flowRef],
                             after.context.conversationFlow[Len(after.context.conversationFlow)])
                 ELSE objs.conversationFlow[flowRef]
      sliced == Len(grown) > FlowCap
      flows == [objs.conversationFlow EXCEPT ![flowRef] = grown]
  IN  [objects |-> [metadata |-> [objs.metadata EXCEPT ![held.metadata] = after.metadata],
                    entities |-> [objs.entities EXCEPT ![held.context.entities] =
                                    after.context.entities],
                    conversationFlow |-> IF sliced
                                           THEN Append(flows, after.context.conversationFlow)
                                           ELSE flows],
       session |-> [after EXCEPT
                      !.metadata = held.metadata,
                      !.context.entities = held.context.entities,
                      !.context.conversationFlow =
                         IF sliced THEN Len(flows) + 1 ELSE flowRef]]

IdleCall ==
  [pc |-> "idle", op |-> "none", sessionId |-> Undefined, modality |-> Undefined,
   message |-> NoMessage, snapshot |-> Null, readAt |-> 0, wroteAt |-> 0,
   error |-> "none", crossed |-> FALSE]

NoEcho == [sessionId |-> Undefined, actual |-> Unused, alone |-> Unused]

\* what a caller gets from a call: the error or the value returned
Reply(out) == [error |-> out.error, session |-> out.session, text |-> out.text, flag |-> out.flag]

RaceInit ==
  /\ store = EmptyStore
  /\ now = 0
  /\ calls = 0
  /\ nUpdates = [id \in SessionIds |-> 0]
  /\ nSwitches = [id \in SessionIds |-> 0]
  /\ script = 0
  /\ opening = "rotating"
  /\ inserted = [id \in SessionIds |-> <<>>]
  /\ last = NoCall
  /\ objects = NoObjects
  /\ inflight = [p \in Callers |-> IdleCall]
  /\ solo = [id \in RaceSessions |-> EmptyStore]
  /\ raced = {}
  /\ echo = NoEcho
  /\ handed = Unused
  /\ router = Unused
  /\ pending = Unused
  /\ reply = Unused
  /\ heard = Unused
  /\ bridge = Unused
  /\ bridgeLog = Unused
  /\ agent = Unused
  /\ answer = Unused
  /\ turns = Unused
  /\ manager = Unused
  /\ fetch = Unused
  /\ fetched = Unused
  /\ waiting = Unused

Other(p) == CHOOSE q \in Callers : q # p

InFlight(p) == inflight[p].pc = "read"

\* caller 1 is the one that calls when no call is in flight
MayBegin(p) ==
  /\ ~InFlight(p)
  /\ calls < MaxRaceCalls
  /\ p = 2 => InFlight(1)

\* the other caller's call, marked when this step is on another session
Crossing(p, sessionId) ==
  LET q == Other(p)
  IN  IF InFlight(q) /\ inflight[q].sessionId # sessionId
        THEN [inflight[q] EXCEPT !.crossed = TRUE]
        ELSE inflight[q]

Overlapping(p, sessionId) ==
  IF InFlight(Other(p)) /\ inflight[Other(p)].sessionId = sessionId
    THEN raced \cup {sessionId}
    ELSE raced

\* a call begins: it runs up to its first await, with the Map already read
Begin(p, op, sessionId, modality, message) ==
  /\ inflight' = [q \in Callers |->
                    IF q = p
                      THEN [pc |-> "read", op |-> op, sessionId |-> sessionId,
                            modality |-> modality, message |-> message,
                            snapshot |-> getSession(store, sessionId).session,
                            readAt |-> now + 1, wroteAt |-> 0,
                            error |-> "none", crossed |-> FALSE]
                      ELSE Crossing(p, sessionId)]
  /\ raced' = Overlapping(p, sessionId)
  /\ now' = now + 1
  /\ calls' = calls + 1
  /\ UNCHANGED <<store, objects, solo, echo, handed, seqVars, routerVars, bridgeVars, agentVars, contextVars>>

BeginCreate(p) ==
  /\ MayBegin(p)
  /\ \E sessionId \in RaceSessions :
       Begin(p, "createSession", sessionId, Undefined, NoMessage)

BeginUpdate(p) ==
  /\ MayBegin(p)
  /\ \E sessionId \in RaceSessions, i \in RaceTemplates :
       Begin(p, "updateSession", sessionId, Templates[i].modality,
             MakeMessage(Templates[i], now + 1))

BeginBridge(p) ==
  /\ MayBegin(p)
  /\ \E sessionId \in RaceSessions, targetModality \in Modalities :
       Begin(p, "bridgeContextForModality", sessionId, targetModality, NoMessage)

\* the continuation with the session read again when it resumes
SessionAtResume_Reread(call, sessions) == getSession(sessions, call.sessionId).session

\* the session a call goes on with after `await this.storage.getSession(...)`:
\* the copy made when the call began
SessionAtResume(call, sessions) == call.snapshot

\* the call of caller p ends: the store and the objects it leaves, what it
\* returns, and what its session's calls alone would have left and returned
Finish(p, sessions, objs, out, alone) ==
  LET call == inflight[p]
  IN  /\ store' = sessions
      /\ objects' = objs
      /\ solo' = [solo EXCEPT ![call.sessionId] = alone.sessions]
      /\ echo' = [sessionId |-> call.sessionId, actual |-> Reply(out), alone |-> Reply(alone)]
      /\ inflight' = [q \in Callers |->
                        IF q = p
                          THEN [call EXCEPT !.pc = "done", !.wroteAt = now + 1,
                                            !.error = out.error]
                          ELSE Crossing(p, call.sessionId)]
      /\ now' = now + 1
      /\ UNCHANGED <<calls, raced, handed, seqVars, routerVars, bridgeVars, agentVars, contextVars>>

ResumeCreate(p) ==
  /\ InFlight(p)
  /\ inflight[p].op = "createSession"
  /\ \E call \in {inflight[p]} :
     \E existingSession \in {SessionAtResume(call, store)},
        alone \in {createSession(solo[call.sessionId], call.sessionId, WarmUser, now + 1)} :
       IF existingSession # Null
         THEN Finish(p, store, objects,
                     Outcome(store, "none", Deref(objects, existingSession), "", FALSE, 1, 0),
                     alone)
         ELSE
           \E built \in {createSession(EmptyStore, call.sessionId, WarmUser, now + 1)} :
           \E made \in {Allocate(objects, built.session)} :
             Finish(p, StorageCreateSession(store, call.sessionId, made.session),
                    made.objects,
                    Outcome(store, "none", built.session, "", FALSE, 1, 1),
                    alone)

ResumeUpdate(p) ==
  /\ InFlight(p)
  /\ inflight[p].op = "updateSession"
  /\ \E call \in {inflight[p]} :
     \E session \in {SessionAtResume(call, store)},
        alone \in {updateSession(solo[call.sessionId], call.sessionId,
                                 call.message, call.modality, now + 1)} :
       IF session = Null
         THEN Finish(p, store, objects, NotFound(store), alone)
         ELSE
           \E before \in {Deref(objects, session)} :
           \E turned \in {updateSession(Single(before), call.sessionId,
                                        call.message, call.modality, now + 1)} :
           \E left \in {Mutate(objects, session, turned.session,
                                before.currentModality # call.modality)} :
             Finish(p, StorageUpdateSession(store, call.sessionId, left.session),
                    left.objects,
                    Outcome(store, "none", Deref(left.objects, left.session), "", FALSE, 1, 1),
                    alone)

ResumeBridge(p) ==
  /\ InFlight(p)
  /\ inflight[p].op = "bridgeContextForModality"
  /\ \E call \in {inflight[p]} :
     \E session \in {SessionAtResume(call, store)},
        alone \in {bridgeContextForModality(solo[call.sessionId], call.sessionId,
                                            call.modality, now + 1)} :
       IF session = Null
         THEN Finish(p, store, objects, NotFound(store), alone)
         ELSE
           \E before \in {Deref(objects, session)} :
           \E bridged \in {bridgeContextForModality(Single(before), call.sessionId,
                                                    call.modality, now + 1)} :
             IF bridged.writes = 1
               THEN \E left \in {Mutate(objects, session,
                                         bridged.sessions[call.sessionId], TRUE)} :
                      Finish(p, StorageUpdateSession(store, call.sessionId, left.session),
                             left.objects,
                             Outcome(store, "none", NoSession, bridged.text, FALSE, 1, 1),
                             alone)
               ELSE Finish(p, store, objects,
                           Outcome(store, "none", NoSession, bridged.text, FALSE, 1, 0),
                           alone)

\* destroySession hands storage.deleteSession's promise on: the Map entry is
\* gone when the call is made
RaceDestroy(p) ==
  /\ MayBegin(p)
  /\ \E sessionId \in RaceSessions :
       \E out \in {destroySession(store, sessionId)},
          alone \in {destroySession(solo[sessionId], sessionId)} :
           /\ store' = out.sessions
           /\ solo' = [solo EXCEPT ![sessionId] = alone.sessions]
           /\ echo' = [sessionId |-> sessionId, actual |-> Reply(out), alone |-> Reply(alone)]
           /\ inflight' = [q \in Callers |->
                             IF q = p
                               THEN [IdleCall EXCEPT !.pc = "done", !.op = "destroySession",
                                                     !.sessionId = sessionId,
                                                     !.readAt = now + 1, !.wroteAt = now + 1]
                               ELSE Crossing(p, sessionId)]
           /\ raced' = Overlapping(p, sessionId)
           /\ now' = now + 1
           /\ calls' = calls + 1
           /\ UNCHANGED <<objects, handed, seqVars, routerVars, bridgeVars, agentVars, contextVars>>

RaceNext ==
  \E p \in Callers :
    \/ BeginCreate(p)
    \/ BeginUpdate(p)
    \/ BeginBridge(p)
    \/ ResumeCreate(p)
    \/ ResumeUpdate(p)
    \/ ResumeBridge(p)
    \/ RaceDestroy(p)

RaceSpec == RaceInit /\ [][RaceNext]_vars

----------------------------------------------------------------------------
(* The session objects handed to the caller.  createSession returns the   *)
(* object it built, whose context and metadata the stored session refers  *)
(* to (the Map holds `{...session}`); updateSession returns the copy it   *)
(* worked on, whose context and metadata the stored session refers to     *)
(* after `storage.updateSession`; getSession, and createSession for a     *)
(* stored session, return cloneSession's copy: a new context object with  *)
(* a new memoryBank, and the stored metadata object and entities and      *)
(* conversationFlow arrays.  The calls are sequential here; a caller may  *)
(* keep the object a call returns, and may write to the object it keeps.  *)

MaxHandedCalls == 4

HandedFields == {"metadata", "entities", "conversationFlow", "memoryBank"}

NoHandle == [from |-> "none", session |-> Null, seen |-> Null, shared |-> FALSE, touched |-> 0]

\* the caller keeps the object a call returned
Keep(from, session, objs, shared) ==
  [from |-> from, session |-> session, seen |-> Deref(objs, session),
   shared |-> shared, touched |-> 0]

\* the object the caller holds after a call that stored the session
\* sessionId anew: the Map's session refers to another context object
Detached(sessionId) ==
  IF handed.session.sessionId = sessionId THEN [handed EXCEPT !.shared = FALSE] ELSE handed

\* what the caller pushes
CallerEntity ==
  [name |-> "caller", type |-> "note", value |-> "caller", confidence |-> 10, source |-> "text"]

CallerFlowState(date) ==
  [step |-> "caller_note", modality |-> "text", timestamp |-> date, data |-> SwitchData("text", "text")]

CallerMemory(date) ==
  [id |-> "caller-" \o NumberToString(date), content |-> "caller", importance |-> 10,
   timestamp |-> date, tags |-> <<>>, modality |-> "text"]

HandedInit ==
  /\ store = EmptyStore
  /\ now = 0
  /\ calls = 0
  /\ objects = NoObjects
  /\ handed = NoHandle
  /\ nUpdates = Unused
  /\ nSwitches = Unused
  /\ script = Unused
  /\ opening = Unused
  /\ inserted = Unused
  /\ last = Unused
  /\ inflight = Unused
  /\ solo = Unused
  /\ raced = Unused
  /\ echo = Unused
  /\ router = Unused
  /\ pending = Unused
  /\ reply = Unused
  /\ heard = Unused
  /\ bridge = Unused
  /\ bridgeLog = Unused
  /\ agent = Unused
  /\ answer = Unused
  /\ turns = Unused
  /\ manager = Unused
  /\ fetch = Unused
  /\ fetched = Unused
  /\ waiting = Unused

HandedFrame ==
  UNCHANGED <<seqVars, inflight, solo, raced, echo, routerVars, bridgeVars, agentVars, contextVars>>

HandCreate ==
  /\ calls < MaxHandedCalls
  /\ \E sessionId \in SessionIds, keep \in BOOLEAN :
       IF StorageHas(store, sessionId)
         THEN /\ handed' = IF keep THEN Keep("createSession", store[sessionId], objects, FALSE)
                           ELSE handed
              /\ UNCHANGED <<store, objects>>
         ELSE \E built \in {createSession(EmptyStore, sessionId, WarmUser, now + 1)} :
              \E made \in {Allocate(objects, built.session)} :
                /\ store' = StorageCreateSession(store, sessionId, made.session)
                /\ objects' = made.objects
                /\ handed' = IF keep THEN Keep("createSession", made.session, made.objects, TRUE)
                             ELSE Detached(sessionId)
  /\ now' = now + 1
  /\ calls' = calls + 1
  /\ HandedFrame

HandGet ==
  /\ calls < MaxHandedCalls
  /\ \E sessionId \in SessionIds :
       /\ StorageHas(store, sessionId)
       /\ handed' = Keep("getSession", store[sessionId], objects, FALSE)
  /\ now' = now + 1
  /\ calls' = calls + 1
  /\ UNCHANGED <<store, objects>>
  /\ HandedFrame

HandUpdate ==
  /\ calls < MaxHandedCalls
  /\ \E sessionId \in SessionIds, i \in RaceTemplates, keep \in BOOLEAN :
       /\ StorageHas(store, sessionId)
       /\ \E session \in {store[sessionId]} :
          \E before \in {Deref(objects, session)} :
          \E turned \in {updateSession(Single(before), sessionId,
                                       MakeMessage(Templates[i], now + 1),
                                       Templates[i].modality, now + 1)} :
          \E left \in {Mutate(objects, session, turned.session,
                               before.currentModality # Templates[i].modality)} :
            /\ store' = StorageUpdateSession(store, sessionId, left.session)
            /\ objects' = left.objects
            /\ handed' = IF keep THEN Keep("updateSession", left.session, left.objects, TRUE)
                         ELSE Detached(sessionId)
  /\ now' = now + 1
  /\ calls' = calls + 1
  /\ HandedFrame

HandBridge ==
  /\ calls < MaxHandedCalls
  /\ \E sessionId \in SessionIds, targetModality \in Modalities :
       /\ StorageHas(store, sessionId)
       /\ \E session \in {store[sessionId]} :
          \E before \in {Deref(objects, session)} :
          \E bridged \in {bridgeContextForModality(Single(before), sessionId,
                                                   targetModality, now + 1)} :
            IF bridged.writes = 1
              THEN \E left \in {Mutate(objects, session, bridged.sessions[sessionId], TRUE)} :
                     /\ store' = StorageUpdateSession(store, sessionId, left.session)
                     /\ objects' = left.objects
                     /\ handed' = Detached(sessionId)
              ELSE UNCHANGED <<store, objects, handed>>
  /\ now' = now + 1
  /\ calls' = calls + 1
  /\ HandedFrame

\* the caller writes to the object it holds: metadata.modalitySwitches++,
\* or a push on its entities, its conversationFlow or its memoryBank
CallerWrites ==
  /\ calls < MaxHandedCalls
  /\ handed.from # "none"
  /\ \E field \in HandedFields :
     \E held \in {handed.session} :
     \E objs \in {[objects EXCEPT
                     !.metadata[held.metadata].modalitySwitches =
                        IF field = "metadata" THEN @ + 1 ELSE @,
                     !.entities[held.context.entities] =
                        IF field = "entities" THEN Append(@, CallerEntity) ELSE @,
                     !.conversationFlow[held.context.conversationFlow] =
                        IF field = "conversationFlow"
                          THEN Append(@, CallerFlowState(now + 1)) ELSE @]},
        bank \in {IF field = "memoryBank"
                    THEN Append(held.context.memoryBank, CallerMemory(now + 1))
                    ELSE held.context.memoryBank} :
     \E written \in {[held EXCEPT !.context.memoryBank = bank]} :
       /\ objects' = objs
       /\ handed' = [handed EXCEPT !.session = written,
                                   !.seen = Deref(objs, written),
                                   !.touched = @ + 1]
       /\ store' = IF handed.shared
                     THEN [store EXCEPT ![held.sessionId].context.memoryBank = bank]
                     ELSE store
  /\ now' = now + 1
  /\ calls' = calls + 1
  /\ HandedFrame

HandedNext ==
  \/ HandCreate
  \/ HandGet
  \/ HandUpdate
  \/ HandBridge
  \/ CallerWrites

HandedSpec == HandedInit /\ [][HandedNext]_vars

----------------------------------------------------------------------------
(* ModalityRouter (unnamed/part_004).  Its inputs are `any`: a JavaScript  *)
(* value is a record with its type in t; an object carries its class and,  *)
(* for a plain object, its own fields.  Durations are kept in units of     *)
(* 1/32000 s (one byte of 16 kHz 16-bit mono audio).                        *)

JsNull == [t |-> "null"]
JsUndefined == [t |-> "undefined"]
JsString(s) == [t |-> "string", s |-> s]
JsNumber(n) == [t |-> "number", n |-> n]
JsBinary(class, bytes) == [t |-> "object", class |-> class, byteLength |-> bytes]
JsObject(fields) == [t |-> "object", class |-> "Object", fields |-> fields]

NoFields == [name \in {} |-> JsUndefined]

\* ToBoolean
Truthy(v) ==
  CASE v.t = "null" -> FALSE
    [] v.t = "undefined" -> FALSE
    [] v.t = "string" -> v.s # ""
    [] v.t = "number" -> v.n # 0
    [] v.t = "boolean" -> v.b
    [] OTHER -> TRUE

\* input.name: an own field of a plain object, the length of a string or of
\* a Buffer or typed array, the byteLength of a binary; undefined otherwise
\* (neither strings and numbers nor the binary classes have a property of
\* the other names read here)
GetField(v, name) ==
  CASE v.t = "string" /\ name = "length" -> JsNumber(Len(v.s))
    [] v.t = "object" /\ v.class = "Object" ->
         IF name \in DOMAIN v.fields THEN v.fields[name] ELSE JsUndefined
    [] v.t = "object" /\ v.class # "Object" /\ name = "byteLength" -> JsNumber(v.byteLength)
    [] v.t = "object" /\ v.class \in {"Buffer", "Uint8Array"} /\ name = "length" ->
         JsNumber(v.byteLength)
    [] v.t = "object" /\ v.class = "Float32Array" /\ name = "length" ->
         JsNumber(v.byteLength \div 4)
    [] OTHER -> JsUndefined

\* String.prototype.startsWith
StartsWith(s, prefix) == Len(s) >= Len(prefix) /\ SubSeq(s, 1, Len(prefix)) = prefix

JsTrue == [t |-> "boolean", b |-> TRUE]
JsFalse == [t |-> "boolean", b |-> FALSE]
JsBoolean(b) == IF b THEN JsTrue ELSE JsFalse

\* what evaluating an expression gives: a value, or the exception it throws
Value(v) == [threw |-> "none", value |-> v]
Threw(error) == [threw |-> error, value |-> JsUndefined]

\* input.mimeType?.startsWith('audio/'): undefined when mimeType is null or
\* undefined; a call of something that is not a function when mimeType has
\* no startsWith method (only strings have one)
MimeTypeStartsWithAudio(input) ==
  LET mimeType == GetField(input, "mimeType")
  IN  IF mimeType.t \in {"null", "undefined"} THEN Value(JsUndefined)
      ELSE IF mimeType.t = "string" THEN Value(JsBoolean(StartsWith(mimeType.s, "audio/")))
      ELSE Threw("TypeError")

AudioFields == <<"audioData", "wav", "mp3", "webm", "blob">>

RECURSIVE FirstTruthyField(_, _, _)
\* input.audioData || input.wav || ... : the first truthy one, else the last
FirstTruthyField(input, names, i) ==
  IF i >= Len(names) \/ Truthy(GetField(input, names[i]))
    THEN GetField(input, names[i])
    ELSE FirstTruthyField(input, names, i + 1)

\* the || chain of isAudioInput, left to right
isAudioInput(input) ==
  IF ~Truthy(input) THEN Value(JsFalse)
  ELSE IF GetField(input, "type") = JsString("audio") THEN Value(JsTrue)
  ELSE
    LET mime == MimeTypeStartsWithAudio(input)
        field == FirstTruthyField(input, AudioFields, 1)
    IN  IF mime.threw # "none" THEN mime
        ELSE IF Truthy(mime.value) THEN mime
        ELSE IF Truthy(field) THEN Value(field)
        ELSE Value(JsBoolean(input.t = "object"
                               /\ input.class \in {"Buffer", "ArrayBuffer", "Uint8Array"}))

\* detectModality: 'voice' or 'text', or the exception isAudioInput threw
detectModality(input) ==
  LET audio == isAudioInput(input)
  IN  IF audio.threw # "none" THEN [threw |-> audio.threw, modality |-> Undefined]
      ELSE [threw |-> "none", modality |-> IF Truthy(audio.value) THEN "voice" ELSE "text"]

\* a ?? b
Nullish(a, b) == IF a.t \in {"null", "undefined"} THEN b ELSE a
\* a || b
Either(a, b) == IF Truthy(a) THEN a ELSE b

\* a speech-to-text or text-to-speech collaborator
JsProvider == [t |-> "object", class |-> "Provider"]

ConfigKeys == {"speechToText", "textToSpeech", "useMockWhenUnavailable"}

\* constructor: { useMockWhenUnavailable: true, ...config }; a key the
\* argument does not have reads as undefined afterwards, a key it has with
\* the value undefined overrides the default
ModalityRouter(config) ==
  [key \in ConfigKeys |->
     IF key \in DOMAIN config THEN config[key]
     ELSE IF key = "useMockWhenUnavailable" THEN JsTrue
     ELSE JsUndefined]

hasSpeechToText(config) == Truthy(config["speechToText"])
hasTextToSpeech(config) == Truthy(config["textToSpeech"])

isModalitySupported(config, modality) ==
  CASE modality = "text" -> TRUE
    [] modality = "voice" ->
         hasSpeechToText(config) \/ Truthy(Nullish(config["useMockWhenUnavailable"], JsFalse))
    [] OTHER -> FALSE

getCapabilities(config) ==
  [voice |-> isModalitySupported(config, "voice"),
   text |-> TRUE,
   speechToText |-> hasSpeechToText(config),
   textToSpeech |-> hasTextToSpeech(config),
   usingMocks |-> Truthy(Nullish(config["useMockWhenUnavailable"], JsFalse))
                    /\ (~hasSpeechToText(config) \/ ~hasTextToSpeech(config))]

\* /\s/
SpaceSet == {" ", "\t", "\n"}

RECURSIVE TrimStart(_)
TrimStart(s) == IF Len(s) > 0 /\ CharAt(s, 1) \in SpaceSet THEN TrimStart(SubSeq(s, 2, Len(s))) ELSE s
RECURSIVE TrimEnd(_)
TrimEnd(s) ==
  IF Len(s) > 0 /\ CharAt(s, Len(s)) \in SpaceSet THEN TrimEnd(SubSeq(s, 1, Len(s) - 1)) ELSE s
\* String.prototype.trim
Trim(s) == TrimEnd(TrimStart(s))

\* text.split(/\s+/).length: one more than the number of runs of white space
SplitCount(text) ==
  1 + Cardinality({i \in 1..Len(text) :
                     /\ CharAt(text, i) \in SpaceSet
                     /\ (i = 1 \/ CharAt(text, i - 1) \notin SpaceSet)})

TicksPerSecond == 32000
MinAudioTicks == 16000
DefaultAudioTicks == 112000
TicksPerWord == 12800

DefaultLanguage == "en-US"
DefaultConfidence == 95
FullConfidence == 100
MockConfidence == 85
MockTranscript == "I'd like to speak with customer service about my order."

getAudioDuration(audioInput) ==
  LET duration == GetField(audioInput, "duration")
      nested == GetField(GetField(audioInput, "metadata"), "duration")
      bytes == Either(GetField(audioInput, "length"), GetField(audioInput, "byteLength"))
  IN  IF Truthy(duration) THEN duration
      ELSE IF Truthy(nested) THEN nested
      ELSE IF Truthy(bytes) THEN JsNumber(Max(MinAudioTicks, bytes.n))
      ELSE JsNumber(DefaultAudioTicks)

estimateVoiceDuration(text) == JsNumber(Max(TicksPerSecond, SplitCount(text) * TicksPerWord))

\* generateMessageId: `msg_${Date.now()}_${random}`
generateMessageId(clock, random) ==
  "msg_" \o NumberToString(clock) \o "_" \o NumberToString(random)

\* the mock transcription of an input numbered after the clock
mockSpeechToText_Clocked(audioInput, clock) ==
  IF audioInput.t = "string"
    THEN [text |-> JsString(audioInput.s), confidence |-> JsNumber(FullConfidence),
          language |-> JsString(DefaultLanguage), duration |-> JsUndefined]
    ELSE [text |-> JsString(Join(<<MockTranscript, ToString(clock)>>, " ")),
          confidence |-> JsNumber(MockConfidence),
          language |-> JsString(DefaultLanguage), duration |-> getAudioDuration(audioInput)]

\* mockSpeechToText, after its delay; the clock is at hand and is not used
mockSpeechToText(audioInput, clock) ==
  IF audioInput.t = "string"
    THEN [text |-> JsString(audioInput.s), confidence |-> JsNumber(FullConfidence),
          language |-> JsString(DefaultLanguage), duration |-> JsUndefined]
    ELSE [text |-> JsString(MockTranscript), confidence |-> JsNumber(MockConfidence),
          language |-> JsString(DefaultLanguage), duration |-> getAudioDuration(audioInput)]

\* what a call gives: the message it returns or the error it throws;
\* synthetic records that the content or the voice metadata came from the
\* mock and not from a collaborator
Returns(message, synthetic) == [threw |-> "none", message |-> message, synthetic |-> synthetic]
Throws(error) == [threw |-> error, message |-> NoMessage, synthetic |-> FALSE]

NoVoice == [duration |-> JsUndefined, language |-> JsUndefined, confidence |-> JsUndefined]

\* a collaborator's promise: resolved with a result or rejected with a reason
Resolved(result) == [rejected |-> FALSE, result |-> result]
Rejected(reason) == [rejected |-> TRUE, reason |-> reason]

NoSpeechToText == "Error: No speech-to-text provider configured and mocks are disabled"
NoTextToSpeech == "Error: No text-to-speech provider configured and mocks are disabled"
VoiceFailed(error) == Join(<<"Voice processing failed:", error>>, " ")

\* which branch processVoiceMessage takes, decided before its await
VoicePath(config) ==
  IF Truthy(config["speechToText"]) THEN "provider"
  ELSE IF Truthy(config["useMockWhenUnavailable"]) THEN "mock"
  ELSE "none"

\* processVoiceMessage from its await on: branch is the one taken at the
\* call, promise what the collaborator's transcribe gave, config the
\* configuration read again for the endpoint
processVoiceMessage(audioInput, branch, promise, config, startTime, clock, random) ==
  IF branch = "none" THEN Throws(VoiceFailed(NoSpeechToText))
  ELSE IF branch = "provider" /\ promise.rejected THEN Throws(VoiceFailed(promise.reason))
  ELSE
    LET transcriptionResult ==
          IF branch = "provider" THEN promise.result ELSE mockSpeechToText(audioInput, clock)
    IN  Returns([id |-> generateMessageId(clock, random),
                 role |-> "user",
                 content |-> transcriptionResult.text,
                 modality |-> "voice",
                 timestamp |-> clock,
                 voice |-> [duration |-> Either(transcriptionResult.duration,
                                                getAudioDuration(audioInput)),
                            language |-> Either(transcriptionResult.language,
                                                JsString(DefaultLanguage)),
                            confidence |-> Either(transcriptionResult.confidence,
                                                  JsNumber(DefaultConfidence))],
                 processingTime |-> clock - startTime,
                 endpoint |-> IF Truthy(config["speechToText"])
                                THEN "custom-provider" ELSE "mock"],
                branch = "mock")

\* processTextMessage: textInput.trim() is a TypeError on anything but a string
processTextMessage(textInput, clock, random) ==
  IF textInput.t # "string" THEN Throws("TypeError")
  ELSE Returns([id |-> generateMessageId(clock, random),
                role |-> "user",
                content |-> JsString(Trim(textInput.s)),
                modality |-> "text",
                timestamp |-> clock,
                voice |-> NoVoice,
                processingTime |-> 1,
                endpoint |-> Undefined],
               FALSE)

\* prepareVoiceResponse: the voice metadata, or the error thrown; promise is
\* what the collaborator's synthesize gave when one is configured
prepareVoiceResponse(content, config, promise) ==
  LET mock == [duration |-> estimateVoiceDuration(content),
               language |-> JsString(DefaultLanguage),
               confidence |-> JsNumber(FullConfidence)]
      useMock == Truthy(config["useMockWhenUnavailable"])
  IN  IF Truthy(config["textToSpeech"]) /\ ~promise.rejected
        THEN [threw |-> "none", synthetic |-> FALSE,
              voice |-> [duration |-> Either(promise.result.duration,
                                             estimateVoiceDuration(content)),
                         language |-> JsString(DefaultLanguage),
                         confidence |-> JsNumber(FullConfidence)]]
      ELSE IF Truthy(config["textToSpeech"]) /\ ~useMock
        THEN [threw |-> promise.reason, synthetic |-> FALSE, voice |-> NoVoice]
      ELSE IF useMock
        THEN [threw |-> "none", synthetic |-> TRUE, voice |-> mock]
      ELSE [threw |-> NoTextToSpeech, synthetic |-> FALSE, voice |-> NoVoice]

prepareResponse(content, targetModality, config, promise, clock, random) ==
  LET message == [id |-> generateMessageId(clock, random),
                  role |-> "assistant",
                  content |-> JsString(content),
                  modality |-> targetModality,
                  timestamp |-> clock,
                  voice |-> NoVoice,
                  processingTime |-> 1,
                  endpoint |-> Undefined]
      voice == prepareVoiceResponse(content, config, promise)
  IN  IF targetModality # "voice" THEN Returns(message, FALSE)
      ELSE IF voice.threw # "none" THEN Throws(voice.threw)
      ELSE Returns([message EXCEPT !.voice = voice.voice, !.processingTime = 0],
                   voice.synthetic)

MaxRouterCalls == 2

\* what callers hand to processMessage
ProcessInputs == {JsString("  call me back \n"), JsNull, JsBinary("Buffer", 64000)}

\* what callers hand to prepareResponse
ResponseContents == {"", "Your order has shipped.", " one  moment "}

\* what a speech-to-text collaborator's transcribe settles with
SttPromises ==
  {Resolved([text |-> JsString("where is my order"), confidence |-> JsNumber(90),
             language |-> JsString("en-GB"), duration |-> JsNumber(40000)]),
   Resolved([text |-> JsString("where is my order"), confidence |-> JsUndefined,
             language |-> JsUndefined, duration |-> JsUndefined]),
   Rejected("Error: transcription service unavailable")}

\* what a text-to-speech collaborator's synthesize settles with
TtsPromises ==
  {Resolved([duration |-> JsNumber(70000)]),
   Resolved([duration |-> JsUndefined]),
   Rejected("Error: synthesis service unavailable")}

\* no collaborator was called
NoPromise == [rejected |-> FALSE]

\* the arguments of the constructor: each key absent, or present with one of
\* the values its type allows
ConstructorArgs ==
  {config \in UNION {[keys -> {JsProvider, JsTrue, JsFalse, JsUndefined}] :
                       keys \in SUBSET ConfigKeys} :
     \A key \in DOMAIN config :
        IF key = "useMockWhenUnavailable" THEN config[key] # JsProvider
        ELSE config[key] = JsProvider}

IdleRouterCall == [op |-> "idle"]
NoReply == [op |-> "none"]

\* the variables of the session store are not used
RouterUnused ==
  /\ store = Unused
  /\ nUpdates = Unused
  /\ nSwitches = Unused
  /\ script = Unused
  /\ opening = Unused
  /\ inserted = Unused
  /\ last = Unused
  /\ objects = Unused
  /\ inflight = Unused
  /\ solo = Unused
  /\ raced = Unused
  /\ echo = Unused
  /\ handed = Unused

\* nor are those of the bridge
BridgeUnused ==
  /\ bridge = Unused
  /\ bridgeLog = Unused

\* nor those of the agent and of its context manager
AgentUnused ==
  /\ agent = Unused
  /\ answer = Unused
  /\ turns = Unused
  /\ manager = Unused
  /\ fetch = Unused
  /\ fetched = Unused
  /\ waiting = Unused

RouterInit ==
  /\ \E config \in ConstructorArgs :
       router = [config |-> ModalityRouter(config), isProcessing |-> FALSE]
  /\ pending = [p \in Callers |-> IdleRouterCall]
  /\ reply = NoReply
  /\ heard = {}
  /\ now = 1
  /\ calls = 0
  /\ RouterUnused
  /\ BridgeUnused
  /\ AgentUnused

RouterFrame == UNCHANGED <<store, seqVars, raceVars, bridgeVars, agentVars, contextVars>>

\* processMessage up to the await of processVoiceMessage or processTextMessage
BeginProcessMessage(p) ==
  /\ pending[p] = IdleRouterCall
  /\ calls < MaxRouterCalls
  /\ p = 2 => pending[1] # IdleRouterCall
  /\ \E input \in ProcessInputs, modality \in Modalities :
       pending' = [pending EXCEPT ![p] =
                     [op |-> "processMessage", input |-> input, modality |-> modality,
                      branch |-> IF modality = "voice" THEN VoicePath(router.config)
                                 ELSE "text",
                      config |-> router.config, startTime |-> now]]
  /\ router' = [router EXCEPT !.isProcessing = TRUE]
  /\ calls' = calls + 1
  /\ now' = now + 1
  /\ UNCHANGED <<reply, heard>>
  /\ RouterFrame

\* processMessage from the await on, with a finally block that clears the
\* flag only when no other call is in flight
FinishProcessMessage_Exclusive(p) ==
  /\ pending[p] # IdleRouterCall
  /\ \E random \in {0, 1},
        promise \in IF pending[p].branch = "provider" THEN SttPromises ELSE {NoPromise} :
       \E outcome \in {IF pending[p].modality = "voice"
                         THEN processVoiceMessage(pending[p].input, pending[p].branch, promise,
                                                  router.config, pending[p].startTime,
                                                  now, random)
                         ELSE processTextMessage(pending[p].input, now, random)} :
          /\ reply' = [op |-> "processMessage", input |-> pending[p].input,
                       modality |-> pending[p].modality, config |-> pending[p].config,
                       rejected |-> promise.rejected, outcome |-> outcome]
          /\ heard' = IF outcome.threw = "none" /\ pending[p].branch = "mock"
                        THEN heard \cup {<<pending[p].input, outcome.message.content>>}
                        ELSE heard
  /\ router' = [router EXCEPT !.isProcessing =
                  \E q \in DOMAIN pending \ {p} : pending[q] # IdleRouterCall]
  /\ pending' = [pending EXCEPT ![p] = IdleRouterCall]
  /\ UNCHANGED <<now, calls>>
  /\ RouterFrame

\* processMessage from the await on, its finally block included
FinishProcessMessage(p) ==
  /\ pending[p] # IdleRouterCall
  /\ \E random \in {0, 1},
        promise \in IF pending[p].branch = "provider" THEN SttPromises ELSE {NoPromise} :
       \E outcome \in {IF pending[p].modality = "voice"
                         THEN processVoiceMessage(pending[p].input, pending[p].branch, promise,
                                                  router.config, pending[p].startTime,
                                                  now, random)
                         ELSE processTextMessage(pending[p].input, now, random)} :
          /\ reply' = [op |-> "processMessage", input |-> pending[p].input,
                       modality |-> pending[p].modality, config |-> pending[p].config,
                       rejected |-> promise.rejected, outcome |-> outcome]
          /\ heard' = IF outcome.threw = "none" /\ pending[p].branch = "mock"
                        THEN heard \cup {<<pending[p].input, outcome.message.content>>}
                        ELSE heard
  /\ router' = [router EXCEPT !.isProcessing = FALSE]
  /\ pending' = [pending EXCEPT ![p] = IdleRouterCall]
  /\ UNCHANGED <<now, calls>>
  /\ RouterFrame

PrepareResponse ==
  /\ calls < MaxRouterCalls
  /\ \E content \in ResponseContents, targetModality \in Modalities, random \in {0, 1} :
     \E promise \in IF targetModality = "voice" /\ Truthy(router.config["textToSpeech"])
                      THEN TtsPromises ELSE {NoPromise} :
       reply' = [op |-> "prepareResponse", input |-> JsString(content),
                 modality |-> targetModality, config |-> router.config,
                 rejected |-> promise.rejected,
                 outcome |-> prepareResponse(content, targetModality, router.config,
                                             promise, now, random)]
  /\ calls' = calls + 1
  /\ now' = now + 1
  /\ UNCHANGED <<router, pending, heard>>
  /\ RouterFrame

SetSpeechToTextProvider ==
  /\ router' = [router EXCEPT !.config["speechToText"] = JsProvider]
  /\ reply' = NoReply
  /\ UNCHANGED <<pending, heard, now, calls>>
  /\ RouterFrame

SetTextToSpeechProvider ==
  /\ router' = [router EXCEPT !.config["textToSpeech"] = JsProvider]
  /\ reply' = NoReply
  /\ UNCHANGED <<pending, heard, now, calls>>
  /\ RouterFrame

EmptyObject == JsObject(NoFields)
WithField(object, name, value) ==
  JsObject([n \in DOMAIN object.fields \cup {name} |->
              IF n = name THEN value ELSE object.fields[n]])

FieldValues ==
  {JsString("audio"), JsString("audio/wav"), JsString("text/plain"), JsString(""),
   JsNumber(42), JsNull, JsBinary("Buffer", 64000)}

\* what callers hand to detectModality: primitives, binaries, and plain
\* objects with one or two of the fields isAudioInput reads
DetectInputs ==
  {JsNull, JsUndefined, JsTrue, JsFalse, JsNumber(0), JsNumber(42),
   JsString(""), JsString("hello"), JsString("audio"), JsString("audio/wav"),
   JsBinary("Buffer", 0), JsBinary("Buffer", 64000), JsBinary("ArrayBuffer", 64000),
   JsBinary("Uint8Array", 64000), JsBinary("Float32Array", 64000), EmptyObject}
  \cup {WithField(EmptyObject, name, value) :
          name \in {"type", "mimeType"} \cup {AudioFields[i] : i \in DOMAIN AudioFields},
          value \in FieldValues}
  \cup {WithField(WithField(EmptyObject, "type", JsString("text")), name, value) :
          name \in {"mimeType", "webm"}, value \in FieldValues}

\* detectModality on its own: it reads no state of the router
DetectInit ==
  /\ \E input \in DetectInputs : reply = [op |-> "input", input |-> input]
  /\ router = [config |-> ModalityRouter(NoFields), isProcessing |-> FALSE]
  /\ pending = [p \in Callers |-> IdleRouterCall]
  /\ heard = {}
  /\ now = 1
  /\ calls = 0
  /\ RouterUnused
  /\ BridgeUnused
  /\ AgentUnused

DetectModality ==
  /\ reply.op = "input"
  /\ reply' = [op |-> "detectModality", input |-> reply.input,
               outcome |-> detectModality(reply.input)]
  /\ UNCHANGED <<router, pending, heard, now, calls>>
  /\ RouterFrame

DetectNext == DetectModality

DetectSpec == DetectInit /\ [][DetectNext]_vars

RouterNext ==
  \/ \E p \in Callers : BeginProcessMessage(p)
  \/ \E p \in Callers : FinishProcessMessage(p)
  \/ PrepareResponse
  \/ SetSpeechToTextProvider
  \/ SetTextToSpeechProvider

RouterSpec == RouterInit /\ [][RouterNext]_vars

----------------------------------------------------------------------------
(* ContextBridge (unnamed/part_003): its regular expressions, matched from *)
(* left to right as String.prototype.replace and split match them.         *)

UpperOf == [c \in LowerSet |->
              CharAt(UpperChars, CHOOSE i \in 1..Len(LowerChars) : CharAt(LowerChars, i) = c)]
ToUpperChar(c) == IF IsLower(c) THEN UpperOf[c] ELSE c

SentenceEnds == {".", "!", "?"}

\* last position of the longest run of characters not of `class` that
\* starts at i (i - 1 when s[i] is in the class)
RunEndOutside(s, i, class) ==
  LET inside == {j \in i..Len(s) : CharAt(s, j) \in class}
  IN  IF inside = {} THEN Len(s) ELSE SetMin(inside) - 1

\* word (in lower case) matches at i, whatever the case of the letters of s
MatchesAt(s, i, word) ==
  /\ i + Len(word) - 1 <= Len(s)
  /\ ToLowerCase(SubSeq(s, i, i + Len(word) - 1)) = word

\* /a|b|c/gi at i: the first alternative that matches there, 0 when none does
AlternativeAt(s, i, words) ==
  IF \E k \in 1..Len(words) : MatchesAt(s, i, words[k])
    THEN SetMin({k \in 1..Len(words) : MatchesAt(s, i, words[k])})
    ELSE 0

RECURSIVE ReplaceWordsFrom(_, _, _, _, _, _)
\* s.replace(/a|b|c/gi, ...) from position i on: each match, found from
\* left to right, becomes `before`, then the matched text when keep, then
\* `after`
ReplaceWordsFrom(s, i, words, before, keep, after) ==
  LET matches == {j \in i..Len(s) : AlternativeAt(s, j, words) # 0}
  IN  IF matches = {} THEN SubSeq(s, i, Len(s))
      ELSE LET j == SetMin(matches)
               word == words[AlternativeAt(s, j, words)]
           IN  SubSeq(s, i, j - 1)
               \o before
               \o (IF keep THEN SubSeq(s, j, j + Len(word) - 1) ELSE "")
               \o after
               \o ReplaceWordsFrom(s, j + Len(word), words, before, keep, after)

ReplaceWords(s, words, replacement) == ReplaceWordsFrom(s, 1, words, replacement, FALSE, "")

RECURSIVE CollapseSpacesFrom(_, _)
\* s.replace(/(\s)+/g, ' ') from position i on
CollapseSpacesFrom(s, i) ==
  LET spaces == {j \in i..Len(s) : CharAt(s, j) \in SpaceSet}
  IN  IF spaces = {} THEN SubSeq(s, i, Len(s))
      ELSE LET j == SetMin(spaces)
           IN  SubSeq(s, i, j - 1) \o " " \o CollapseSpacesFrom(s, RunEnd(s, j, SpaceSet) + 1)

\* the length of the separator of the given kind that starts at i, 0 when
\* none does: /[.!?]+/, /\W+/, '\n', /,|;|\band\b|\bor\b/
SeparatorAt(kind, s, i) ==
  CASE kind = "sentence" -> RunEnd(s, i, SentenceEnds) - i + 1
    [] kind = "nonword" -> RunEndOutside(s, i, WordSet) - i + 1
    [] kind = "line" -> IF CharAt(s, i) = "\n" THEN 1 ELSE 0
    [] kind = "clause" ->
         IF CharAt(s, i) \in {",", ";"} THEN 1
         ELSE IF /\ i + 2 <= Len(s)
                 /\ SubSeq(s, i, i + 2) = "and"
                 /\ WordBoundary(s, i)
                 /\ WordBoundary(s, i + 3) THEN 3
         ELSE IF /\ i + 1 <= Len(s)
                 /\ SubSeq(s, i, i + 1) = "or"
                 /\ WordBoundary(s, i)
                 /\ WordBoundary(s, i + 2) THEN 2
         ELSE 0

RECURSIVE SplitFrom(_, _, _)
\* String.prototype.split: the pieces of s from `start` on
SplitFrom(kind, s, start) ==
  LET separators == {j \in start..Len(s) : SeparatorAt(kind, s, j) > 0}
  IN  IF separators = {} THEN <<SubSeq(s, start, Len(s))>>
      ELSE LET j == SetMin(separators)
           IN  <<SubSeq(s, start, j - 1)>>
               \o SplitFrom(kind, s, j + SeparatorAt(kind, s, j))

Split(kind, s) == SplitFrom(kind, s, 1)

StopWords ==
  {"the", "be", "to", "of", "and", "a", "in", "that", "have", "this", "from", "with",
   "they", "would", "what", "when", "there", "about"}

isStopWord(word) == word \in StopWords

KeywordLength == 3

extractKeywords(text) ==
  SelectSeq(Split("nonword", ToLowerCase(text)),
            LAMBDA word : Len(word) > KeywordLength /\ ~isStopWord(word))

isNewTopic(keywords, currentTopic) ==
  IF currentTopic = "" THEN TRUE
  ELSE LET topicKeywords == extractKeywords(currentTopic)
       IN  ~\E i \in 1..Len(keywords), j \in 1..Len(topicKeywords) :
              keywords[i] = topicKeywords[j]

HeadingWords == 3

Capitalize(w) == IF w = "" THEN "" ELSE ToUpperChar(CharAt(w, 1)) \o SubSeq(w, 2, Len(w))

generateTopicHeading(keywords) ==
  LET first == Slice0(keywords, HeadingWords)
  IN  Join([i \in 1..Len(first) |-> Capitalize(first[i])], " ")

RECURSIVE DetectTopicsFrom(_, _, _, _)
\* the forEach of detectTopics from sentence i on, with the topic and the
\* content collected so far, and the final push
DetectTopicsFrom(sentences, i, currentTopic, currentContent) ==
  LET pushed == IF currentTopic # ""
                  THEN <<[heading |-> currentTopic, content |-> Join(currentContent, ". ")]>>
                  ELSE <<>>
  IN  IF i > Len(sentences) THEN pushed
      ELSE LET keywords == extractKeywords(sentences[i])
           IN  IF isNewTopic(keywords, currentTopic)
                 THEN pushed \o DetectTopicsFrom(sentences, i + 1,
                                                 generateTopicHeading(keywords),
                                                 <<sentences[i]>>)
                 ELSE DetectTopicsFrom(sentences, i + 1, currentTopic,
                                       Append(currentContent, sentences[i]))

detectTopics(text) == DetectTopicsFrom(Split("sentence", text), 1, "", <<>>)

\* the list marker (a number and a dot, a dash or a bullet) at i: the position
\* of its last character, 0 when no match; the contexts here are ASCII, so the
\* bullet of the pattern never occurs in them
ListMarkerEnd(s, i) ==
  IF i > Len(s) THEN 0
  ELSE IF CharAt(s, i) = "-" THEN i
  ELSE LET d == RunEnd(s, i, DigitSet)
       IN  IF d >= i /\ d + 1 <= Len(s) /\ CharAt(s, d + 1) = "." THEN d + 1 ELSE 0

\* /([.!?]+)\s*(\d+\.|[-])/ at i: the positions of the last character of
\* $1, of the white space and of $2, when it matches there
ListItemAt(s, i) ==
  LET e == RunEnd(s, i, SentenceEnds)
      w == RunEnd(s, e + 1, SpaceSet)
  IN  [punctuation |-> e, space |-> w, marker |-> IF e < i THEN 0 ELSE ListMarkerEnd(s, w + 1)]

RECURSIVE FormatListsFrom(_, _)
\* text.replace(/([.!?]+)\s*(\d+\.|[-])/g, '$1\n\n$2') from position i on
FormatListsFrom(s, i) ==
  LET matches == {j \in i..Len(s) : ListItemAt(s, j).marker # 0}
  IN  IF matches = {} THEN SubSeq(s, i, Len(s))
      ELSE LET j == SetMin(matches)
               item == ListItemAt(s, j)
           IN  SubSeq(s, i, item.punctuation) \o "\n\n"
               \o SubSeq(s, item.space + 1, item.marker)
               \o FormatListsFrom(s, item.marker + 1)

formatLists(text) == FormatListsFrom(text, 1)

KeyPoints == <<"important", "key", "must", "critical", "essential">>

RECURSIVE HighlightFrom(_, _)
\* the forEach of highlightKeyPoints from keyword k on
HighlightFrom(text, k) ==
  IF k > Len(KeyPoints) THEN text
  ELSE HighlightFrom(ReplaceWordsFrom(text, 1, <<KeyPoints[k]>>, "**", TRUE, "**"), k + 1)

highlightKeyPoints(text) == HighlightFrom(text, 1)

RenderTopics(topics) ==
  Join([i \in 1..Len(topics) |->
          topics[i].heading \o ":\n" \o topics[i].content], "\n\n")

SpeechArtifacts == <<"um", "uh", "like", "you know">>

voiceToTextBridge(context) ==
  LET cleaned == Trim(CollapseSpacesFrom(ReplaceWords(context, SpeechArtifacts, ""), 1))
      topics == detectTopics(cleaned)
      bridged == IF Len(topics) > 1 THEN RenderTopics(topics) ELSE cleaned
  IN  highlightKeyPoints(formatLists(bridged))

LongSentence == 100
LongLine == 50

RECURSIVE SplitLongSentencesFrom(_, _)
\* text.replace(/([^.!?]+[.!?]+)/g, ...) from position i on: a match starts
\* at the first character that is not a sentence end and needs a sentence
\* end after its run
SplitLongSentencesFrom(s, i) ==
  LET starts == {j \in i..Len(s) : CharAt(s, j) \notin SentenceEnds}
  IN  IF starts = {} THEN SubSeq(s, i, Len(s))
      ELSE LET j == SetMin(starts)
               a == RunEndOutside(s, j, SentenceEnds)
               e == RunEnd(s, a + 1, SentenceEnds)
               sentence == SubSeq(s, j, e)
           IN  IF e = a THEN SubSeq(s, i, Len(s))
               ELSE SubSeq(s, i, j - 1)
                    \o (IF Len(sentence) > LongSentence
                          THEN Join(Split("clause", sentence), ".\n")
                          ELSE sentence)
                    \o SplitLongSentencesFrom(s, e + 1)

splitLongSentences(text) == SplitLongSentencesFrom(text, 1)

Markers == <<"you see", "basically", "actually", "right", "well">>

\* the lines of text longer than 50 characters: each takes one Math.random()
LongLines(lines) == {i \in 1..Len(lines) : Len(lines[i]) > LongLine}

\* addConversationalMarkers; draws[i] is Math.floor(Math.random() *
\* markers.length) + 1 as drawn for line i
addConversationalMarkers(text, draws) ==
  LET lines == Split("line", text)
  IN  Join([i \in 1..Len(lines) |->
              IF Len(lines[i]) > LongLine
                THEN Markers[draws[i]] \o ", " \o ToLowerChar(CharAt(lines[i], 1))
                     \o SubSeq(lines[i], 2, Len(lines[i]))
                ELSE lines[i]], "\n")

\* textToVoiceBridge up to its call of addConversationalMarkers
SimplifyForVoice(context) ==
  splitLongSentences(
    ReplaceWords(ReplaceWords(ReplaceWords(context, <<"therefore", "however", "moreover">>,
                                           "so"),
                              <<"additionally">>, "also"),
                 <<"regarding">>, "about"))

textToVoiceBridge(context, draws) == addConversationalMarkers(SimplifyForVoice(context), draws)

\* bridgeContext; draws are the values Math.random() gives during the call
bridgeContext(context, sourceModality, targetModality, draws) ==
  IF sourceModality = targetModality THEN context
  ELSE IF sourceModality = "voice" /\ targetModality = "text" THEN voiceToTextBridge(context)
  ELSE IF sourceModality = "text" /\ targetModality = "voice"
    THEN textToVoiceBridge(context, draws)
  ELSE context

MaxBridgeCalls == 2

\* the contexts callers hand to bridgeContext: spoken and written phrasing,
\* a line of more than 50 characters, a sentence of more than 100
BridgeContexts ==
  {"",
   "Um, I like the new phone. You know, a key point is the battery! uh",
   "However, your order has shipped.",
   "Regarding your order, the parcel left the warehouse this morning.",
   "Additionally, the courier will call you before delivery, and you can change the address or the date; moreover nothing is charged.",
   "The battery is important. 1. Charge it nightly. - Delivery arrives tomorrow? It must.",
   "So um yes. 1. go now."}

\* new Map()
EmptyCache == [key \in {} |-> Undefined]

\* the Math.random() values a call may draw: one per line that gets a marker
Draws(context, sourceModality, targetModality) ==
  IF sourceModality = "text" /\ targetModality = "voice"
    THEN [LongLines(Split("line", SimplifyForVoice(context))) -> 1..Len(Markers)]
    ELSE {EmptyCache}

BridgeInit ==
  /\ bridge = [cache |-> EmptyCache]
  /\ bridgeLog = {}
  /\ calls = 0
  /\ now = 1
  /\ router = Unused
  /\ pending = Unused
  /\ reply = Unused
  /\ heard = Unused
  /\ RouterUnused
  /\ AgentUnused

BridgeFrame == UNCHANGED <<store, now, seqVars, raceVars, routerVars, agentVars, contextVars>>

\* every call callers make, with what it may return
BridgeCalls ==
  UNION {{[context |-> context, sourceModality |-> sourceModality,
           targetModality |-> targetModality,
           result |-> bridgeContext(context, sourceModality, targetModality, draws)] :
            draws \in Draws(context, sourceModality, targetModality)} :
         context \in BridgeContexts, sourceModality \in Modalities,
         targetModality \in Modalities}

\* bridgeContext reads its arguments and Math.random() and writes nothing
BridgeContext ==
  /\ calls < MaxBridgeCalls
  /\ \E call \in BridgeCalls : bridgeLog' = bridgeLog \cup {call}
  /\ calls' = calls + 1
  /\ UNCHANGED bridge
  /\ BridgeFrame

ClearCache ==
  /\ bridge' = [bridge EXCEPT !.cache = EmptyCache]
  /\ UNCHANGED <<bridgeLog, calls>>
  /\ BridgeFrame

BridgeNext ==
  \/ BridgeContext
  \/ ClearCache

BridgeSpec == BridgeInit /\ [][BridgeNext]_vars

----------------------------------------------------------------------------
(* ContextualAgent (examples/simple-phone-session.js): processMessage over  *)
(* the session manager, a ModalityRouter built with no arguments and the   *)
(* language-model collaborator, without context providers; each call       *)
(* atomic (sequential use).                                                *)

MaxAgentCalls == 2

SummaryCount == 5

\* SessionStateManager.getConversationSummary
getConversationSummary(sessions, sessionId) ==
  IF ~StorageHas(sessions, sessionId) THEN ""
  ELSE
    LET context == StorageGetSession(sessions, sessionId).context
        recentMemories == Slice0(SortByRecency(context.memoryBank), SummaryCount)
    IN  (IF Falsy(context.topic) THEN "" ELSE "Topic: " \o context.topic \o "\n")
        \o (IF Len(recentMemories) > 0
              THEN "Recent conversation:\n"
                   \o Join([i \in 1..Len(recentMemories) |->
                              "- " \o recentMemories[i].content
                              \o " (" \o recentMemories[i].modality \o ")\n"], "")
              ELSE "")

\* the external context of an agent that has no contextManager
NoExternalContext == ""

combineContextSources(conversationContext, externalContext) ==
  LET history == IF conversationContext # ""
                   THEN "Conversation History:\n" \o conversationContext ELSE ""
  IN  IF externalContext = "" THEN history
      ELSE history \o (IF history # "" THEN "\n\n" ELSE "")
           \o "Relevant Knowledge:\n" \o externalContext

generateMockResponse(userMessage, targetModality) ==
  "I understand you're asking about: " \o userMessage
  \o (IF targetModality = "voice" THEN ". Let me help you with that."
      ELSE "\n\nHere's how I can assist you:\n1. Provide detailed information\n"
           \o "2. Answer follow-up questions\n3. Help with related topics")

Apology == "I apologize, but I cannot process your request right now."

\* generateResponse: promise is what llmManager.generateResponse gave, when
\* the agent has an llmManager
generateResponse(userMessage, context, targetModality, llmManager, promise) ==
  IF ~llmManager THEN generateMockResponse(userMessage, targetModality)
  ELSE IF promise.rejected THEN generateMockResponse(userMessage, targetModality)
  ELSE IF promise.result.content = "" THEN Apology
  ELSE promise.result.content

\* what llmManager.generateResponse settles with
LlmPromises ==
  {Resolved([content |-> "We sell widgets in blue, red and green."]),
   Rejected("Error: All LLM providers failed")}

\* the Message of the router as the session manager reads it
StoredMessage(message) ==
  [id |-> message.id, role |-> message.role, content |-> message.content.s,
   modality |-> message.modality, timestamp |-> message.timestamp]

\* the router of the agent: new ModalityRouter()
AgentRouterConfig == ModalityRouter(NoFields)

Event(type, data) == [type |-> type, data |-> data]

NoState == [sessionId |-> Undefined]

\* a step of processMessage that an earlier throw kept from running
Skipped == [error |-> "skipped", threw |-> "skipped"]

\* processMessage, to the user's Message: the modality of the input as the
\* router detects it and the Message the router makes of it
Received(input, date, random) ==
  LET inputModality == detectModality(input)
      userMessage == IF inputModality.modality = "voice"
                       THEN processVoiceMessage(input, VoicePath(AgentRouterConfig), NoPromise,
                                                AgentRouterConfig, date, date, random)
                       ELSE processTextMessage(input, date, random)
  IN  IF inputModality.threw # "none"
        THEN [threw |-> inputModality.threw, message |-> NoMessage, modality |-> Undefined]
        ELSE [threw |-> userMessage.threw, message |-> userMessage.message,
              modality |-> inputModality.modality]

\* the AgentResponse of a failed call, with the store as the call left it
Failure(sessions, targetModality, error, events) ==
  [sessions |-> sessions,
   response |-> [success |-> FALSE, message |-> NoMessage, sessionState |-> NoState,
                 modalityUsed |-> targetModality, contextBridgeTriggered |-> FALSE,
                 error |-> error],
   events |-> Append(events, Event("error_occurred", error))]

\* the AgentResponse of processMessage and the store it leaves, from what its
\* steps gave: the sessions after the session was looked up or created, the
\* user's Message, the first updateSession, whether the modality switched,
\* the bridging, the assistant's Message and the second updateSession
Responded(existed, created, received, first, switch, bridged, assistant, second, targetModality, sessionId, retrieved) ==
  LET started == IF existed THEN <<>> ELSE <<Event("session_started", sessionId)>>
      heardOf == Append(started, Event("message_received", received.message.id))
      switched == IF switch
                    THEN <<Event("modality_switched", targetModality),
                           Event("context_bridged", targetModality)>>
                    ELSE <<>>
      prepared == IF switch THEN bridged.sessions ELSE first.sessions
      currentSession == getSession(second.sessions, sessionId)
  IN  IF received.threw # "none"
        THEN Failure(created, targetModality, received.threw, started)
      ELSE IF first.error # "none"
        THEN Failure(first.sessions, targetModality, first.error, heardOf)
      ELSE IF switch /\ bridged.error # "none"
        THEN Failure(bridged.sessions, targetModality, bridged.error, heardOf \o switched)
      ELSE IF assistant.threw # "none"
        THEN Failure(prepared, targetModality, assistant.threw, heardOf \o switched \o retrieved)
      ELSE IF second.error # "none"
        THEN Failure(second.sessions, targetModality, second.error, heardOf \o switched \o retrieved)
      ELSE IF ~StorageHas(second.sessions, sessionId)
        THEN Failure(second.sessions, targetModality, "Error: Session lost during processing",
                     heardOf \o switched \o retrieved \o <<Event("message_sent", assistant.message.id)>>)
      ELSE [sessions |-> second.sessions,
            response |-> [success |-> TRUE, message |-> assistant.message,
                          sessionState |-> currentSession.session,
                          modalityUsed |-> targetModality,
                          contextBridgeTriggered |-> switch,
                          error |-> "none"],
            events |-> heardOf \o switched \o retrieved \o <<Event("message_sent", assistant.message.id)>>]

\* what callers hand to the agent
AgentInputs ==
  {JsString("What products would you recommend?"), JsBinary("Buffer", 64000), JsNull}

\* the suffix Math.random gives the message ids (one draw stands for all:
\* the agent never reads an id)
Randoms == {0}

NoAnswer == [op |-> "none"]

\* of the call that returned before the last one: what it was, the target
\* modality it was given and whether it succeeded
Prior(earlier) ==
  IF earlier.op = "processMessage"
    THEN [op |-> earlier.op, targetModality |-> earlier.response.modalityUsed,
          success |-> earlier.response.success]
    ELSE [op |-> earlier.op, targetModality |-> Undefined, success |-> FALSE]

AgentInit ==
  /\ store = EmptyStore
  /\ now = 1
  /\ calls = 0
  /\ agent \in [llmManager : BOOLEAN]
  /\ answer = NoAnswer
  /\ turns = [id \in SessionIds |-> 0]
  /\ nUpdates = Unused
  /\ nSwitches = Unused
  /\ script = Unused
  /\ opening = Unused
  /\ inserted = Unused
  /\ last = Unused
  /\ objects = Unused
  /\ inflight = Unused
  /\ solo = Unused
  /\ raced = Unused
  /\ echo = Unused
  /\ handed = Unused
  /\ router = Unused
  /\ pending = Unused
  /\ reply = Unused
  /\ heard = Unused
  /\ BridgeUnused
  /\ manager = Unused
  /\ fetch = Unused
  /\ fetched = Unused
  /\ waiting = Unused

AgentFrame == UNCHANGED <<seqVars, raceVars, routerVars, bridgeVars, contextVars>>

\* the body of ContextualAgent.processMessage, for the public method op that
\* runs it
ProcessMessage(op, input, targetModality, sessionId, random, promise) ==
  \E created \in {IF StorageHas(store, sessionId) THEN store
                  ELSE createSession(store, sessionId, Undefined, now).sessions},
     received \in {Received(input, now, random)} :
  \E first \in {IF received.threw # "none" THEN Skipped
                ELSE updateSession(created, sessionId, StoredMessage(received.message),
                                   received.modality, now)} :
  \E switch \in {first.error = "none" /\ first.session.currentModality # targetModality} :
  \E bridged \in {IF switch
                    THEN bridgeContextForModality(first.sessions, sessionId, targetModality, now)
                    ELSE Skipped} :
  \E assistant \in
       {IF first.error = "none" /\ (switch => bridged.error = "none")
          THEN prepareResponse(
                 generateResponse(received.message.content.s,
                   combineContextSources(
                     IF switch THEN bridged.text
                     ELSE getConversationSummary(first.sessions, sessionId),
                     NoExternalContext),
                   targetModality, agent.llmManager, promise),
                 targetModality, AgentRouterConfig, NoPromise, now + 1, random)
          ELSE Skipped} :
  \E second \in {IF assistant.threw = "none"
                   THEN updateSession(IF switch THEN bridged.sessions ELSE first.sessions,
                                      sessionId, StoredMessage(assistant.message),
                                      targetModality, now + 1)
                   ELSE Skipped} :
  \E out \in {Responded(StorageHas(store, sessionId), created, received, first, switch,
                        bridged, assistant, second, targetModality, sessionId, <<>>)} :
     /\ store' = out.sessions
     /\ answer' = [op |-> op, sessionId |-> sessionId, input |-> input,
                   response |-> out.response, events |-> out.events, pre |-> store,
                   prior |-> Prior(answer)]
     /\ turns' = IF out.response.success
                   THEN [turns EXCEPT ![sessionId] = @ + 1] ELSE turns

\* ContextualAgent.processMessage
AgentProcessMessage ==
  /\ calls < MaxAgentCalls
  /\ \E input \in AgentInputs, targetModality \in Modalities, sessionId \in SessionIds,
        random \in Randoms,
        promise \in IF agent.llmManager THEN LlmPromises ELSE {NoPromise} :
       ProcessMessage("processMessage", input, targetModality, sessionId, random, promise)
  /\ now' = now + 2
  /\ calls' = calls + 1
  /\ UNCHANGED agent
  /\ AgentFrame

\* the message switchModality hands to processMessage
SwitchMessage(newModality) ==
  JsString("Switching to " \o newModality \o " mode. How can I help you?")

\* ContextualAgent.switchModality: throws for a session that is not stored,
\* before processMessage and its error handling are reached
AgentSwitchModality ==
  /\ calls < MaxAgentCalls
  /\ \E newModality \in Modalities, sessionId \in SessionIds, random \in Randoms,
        promise \in IF agent.llmManager THEN LlmPromises ELSE {NoPromise} :
       \E switchMessage \in {SwitchMessage(newModality)} :
       IF StorageHas(store, sessionId)
         THEN ProcessMessage("switchModality", switchMessage, newModality,
                             sessionId, random, promise)
         ELSE /\ answer' = [op |-> "switchModality", sessionId |-> sessionId,
                            input |-> switchMessage,
                            response |-> Failure(store, newModality,
                                                 "Error: Session " \o sessionId \o " not found",
                                                 <<>>).response,
                            events |-> <<>>, pre |-> store, prior |-> Prior(answer)]
              /\ UNCHANGED <<store, turns>>
  /\ now' = now + 2
  /\ calls' = calls + 1
  /\ UNCHANGED agent
  /\ AgentFrame

\* ContextualAgent.destroySession
AgentDestroySession ==
  /\ \E sessionId \in SessionIds :
       \E out \in {destroySession(store, sessionId)} :
          /\ store' = out.sessions
          /\ answer' = [op |-> "destroySession", sessionId |-> sessionId, flag |-> out.flag,
                        events |-> IF out.flag THEN <<Event("session_ended", sessionId)>>
                                   ELSE <<>>,
                        pre |-> store, prior |-> Prior(answer)]
          /\ turns' = [turns EXCEPT ![sessionId] = 0]
  /\ UNCHANGED <<now, calls, agent>>
  /\ AgentFrame

AgentNext ==
  \/ AgentProcessMessage
  \/ AgentSwitchModality
  \/ AgentDestroySession

AgentSpec == AgentInit /\ [][AgentNext]_vars

----------------------------------------------------------------------------
(* ContextManager (src/core/ContextManager.ts) and a ContextualAgent built  *)
(* with contextProviders: processMessage awaits getContext, whose provider *)
(* calls settle in any order.                                              *)

MaxContextCalls == 1
MaxManagerCalls == 1

MaxTokens == 4000
TokenLength == 4
TruncateBuffer == 100

\* a ContextProvider: its BaseConfig and whether it has a formatContext of its own
Provider(id, priority, enabled, formats) ==
  [id |-> id, priority |-> priority, enabled |-> enabled, formatContext |-> formats]

\* the providers an agent may be configured with, as config.contextProviders lists them
ProviderConfigs ==
  {<<Provider("kb", JsUndefined, kb, TRUE), Provider("db", JsNumber(2), db, FALSE)>> :
     kb \in {JsUndefined, JsFalse}, db \in {JsTrue, JsFalse}}

\* every provider of some configuration
Providers == UNION {{config[i] : i \in 1..Len(config)} : config \in ProviderConfigs}

ProviderIds == {provider.id : provider \in Providers}

\* provider.enabled !== false
Enabled(provider) == provider.enabled # JsFalse

\* new ContextManager(config): the providers Map
ContextManager(providers) == SelectSeq(providers, Enabled)

\* where the Map holds id, 0 when it does not
IndexOfProvider(providers, id) ==
  IF \E i \in 1..Len(providers) : providers[i].id = id
    THEN CHOOSE i \in 1..Len(providers) : providers[i].id = id
    ELSE 0

\* this.providers.set(provider.id, provider)
addProvider(providers, provider) ==
  IF IndexOfProvider(providers, provider.id) = 0 THEN Append(providers, provider)
  ELSE [providers EXCEPT ![IndexOfProvider(providers, provider.id)] = provider]

\* this.providers.delete(providerId)
removeProvider(providers, providerId) == SelectSeq(providers, LAMBDA p : p.id # providerId)

setProviderEnabled(providers, providerId, enabled) ==
  IF IndexOfProvider(providers, providerId) = 0 THEN providers
  ELSE [providers EXCEPT ![IndexOfProvider(providers, providerId)].enabled = JsBoolean(enabled)]

\* (b.priority || 0) - (a.priority || 0)
ByPriority(a, b) ==
  (IF Truthy(b.priority) THEN b.priority.n ELSE 0)
  - (IF Truthy(a.priority) THEN a.priority.n ELSE 0)

\* getContext: the providers it calls, in the order it calls them
CalledProviders(providers) ==
  Untagged(SortSeq(Tagged(SelectSeq(providers, Enabled)),
                   LAMBDA x, y : StableBefore(ByPriority(x[1], y[1]), x, y)))

\* what a provider's getContext settles with
ProviderOutcomes(id) ==
  {[kind |-> "result", content |-> "Facts from " \o id],
   [kind |-> "null"],
   [kind |-> "rejected", reason |-> "Error: Provider failure"]}

\* a ContextResult as getContext pushes it
ContextResult(context, provider) == [content |-> context.content, provider |-> provider.id]

\* what callers hand to the agent that has a context manager
ContextInputs == {JsString("Hello there"), JsNull}

NoFetch == [active |-> FALSE]
NoFetched == [op |-> "none"]
NotWaiting == [active |-> FALSE]

\* getContext, to its await: every enabled provider has been called
StartGetContext(providers) ==
  [active |-> TRUE, called |-> CalledProviders(providers), settled |-> <<>>,
   results |-> <<>>, handled |-> <<>>]

\* the continuation of one provider call without its try/catch: a rejection
\* is handed to nobody and fails the whole getContext
SettleProvider_Uncaught(call, provider, outcome) ==
  [call EXCEPT
     !.settled = Append(@, [provider |-> provider.id, outcome |-> outcome]),
     !.results = IF outcome.kind = "result"
                   THEN Append(@, ContextResult(outcome, provider))
                   ELSE IF outcome.kind = "rejected" THEN <<>> ELSE @]

\* the continuation of one provider call: push the result, or hand the
\* error to config.errorHandler
SettleProvider(call, provider, outcome) ==
  [call EXCEPT
     !.settled = Append(@, [provider |-> provider.id, outcome |-> outcome]),
     !.results = IF outcome.kind = "result"
                   THEN Append(@, ContextResult(outcome, provider)) ELSE @,
     !.handled = IF outcome.kind = "rejected"
                   THEN Append(@, [error |-> outcome.reason, provider |-> provider.id])
                   ELSE @]

\* the providers of a call that have not settled
Unsettled(call) ==
  {i \in 1..Len(call.called) :
     \A j \in 1..Len(call.settled) : call.settled[j].provider # call.called[i].id}

\* truncateIfNeeded
truncateIfNeeded(text) ==
  LET estimatedTokens == (Len(text) + TokenLength - 1) \div TokenLength
  IN  IF estimatedTokens <= MaxTokens THEN text
      ELSE Substring0(text, ((Len(text) * MaxTokens) \div estimatedTokens) - TruncateBuffer)
           \o "..."

\* formatContext, with the Map as it is when the results are formatted
formatContext(providers, results) ==
  truncateIfNeeded(
    Join([i \in 1..Len(results) |->
            LET at == IndexOfProvider(providers, results[i].provider)
            IN  (IF at # 0 /\ providers[at].formatContext
                   THEN "[" \o results[i].provider \o "] " \o results[i].content
                   ELSE results[i].content) \o "\n\n"], ""))

ContextInit ==
  /\ store = EmptyStore
  /\ now = 1
  /\ calls = 0
  /\ agent = [llmManager |-> FALSE]
  /\ answer = NoAnswer
  /\ turns = [id \in SessionIds |-> 0]
  /\ \E config \in ProviderConfigs :
       manager = [providers |-> ContextManager(config), calls |-> 0]
  /\ fetch = NoFetch
  /\ fetched = NoFetched
  /\ waiting = NotWaiting
  /\ nUpdates = Unused
  /\ nSwitches = Unused
  /\ script = Unused
  /\ opening = Unused
  /\ inserted = Unused
  /\ last = Unused
  /\ objects = Unused
  /\ inflight = Unused
  /\ solo = Unused
  /\ raced = Unused
  /\ echo = Unused
  /\ handed = Unused
  /\ router = Unused
  /\ pending = Unused
  /\ reply = Unused
  /\ heard = Unused
  /\ BridgeUnused

\* a call of the manager's Map methods is explored between getContext calls
\* and, during one, once every provider has settled: getContext read the
\* Map before its await and a settling provider touches only the call's
\* results, so such a call during the settling commutes with it
MayManage ==
  /\ manager.calls < MaxManagerCalls
  /\ fetch.active => Unsettled(fetch) = {}

ContextFrame == UNCHANGED <<agent, seqVars, raceVars, routerVars, bridgeVars>>

\* ContextManager.addProvider
AddProvider ==
  /\ MayManage
  /\ \E provider \in Providers :
       manager' = [providers |-> addProvider(manager.providers, provider),
                   calls |-> manager.calls + 1]
  /\ UNCHANGED <<store, now, calls, answer, turns, fetch, fetched, waiting>>
  /\ ContextFrame

\* ContextManager.removeProvider
RemoveProvider ==
  /\ MayManage
  /\ \E providerId \in ProviderIds :
       manager' = [providers |-> removeProvider(manager.providers, providerId),
                   calls |-> manager.calls + 1]
  /\ UNCHANGED <<store, now, calls, answer, turns, fetch, fetched, waiting>>
  /\ ContextFrame

\* ContextManager.setProviderEnabled
SetProviderEnabled ==
  /\ MayManage
  /\ \E providerId \in ProviderIds, enabled \in BOOLEAN :
       manager' = [providers |-> setProviderEnabled(manager.providers, providerId, enabled),
                   calls |-> manager.calls + 1]
  /\ UNCHANGED <<store, now, calls, answer, turns, fetch, fetched, waiting>>
  /\ ContextFrame

\* ContextualAgent.processMessage, to its await of contextManager.getContext
\* (or to its return, when it fails before)
BeginProcessWithContext ==
  /\ calls < MaxContextCalls
  /\ ~waiting.active
  /\ \E input \in ContextInputs, targetModality \in Modalities, sessionId \in SessionIds,
        random \in Randoms :
     \E created \in {IF StorageHas(store, sessionId) THEN store
                     ELSE createSession(store, sessionId, Undefined, now).sessions},
        received \in {Received(input, now, random)} :
     \E first \in {IF received.threw # "none" THEN Skipped
                   ELSE updateSession(created, sessionId, StoredMessage(received.message),
                                      received.modality, now)} :
     \E switch \in {first.error = "none" /\ first.session.currentModality # targetModality} :
     \E bridged \in {IF switch
                       THEN bridgeContextForModality(first.sessions, sessionId,
                                                     targetModality, now)
                       ELSE Skipped} :
       IF first.error = "none" /\ (switch => bridged.error = "none")
         THEN /\ store' = IF switch THEN bridged.sessions ELSE first.sessions
              /\ waiting' = [active |-> TRUE, input |-> input, sessionId |-> sessionId,
                             targetModality |-> targetModality, random |-> random,
                             existed |-> StorageHas(store, sessionId), created |-> created,
                             received |-> received, first |-> first, switch |-> switch,
                             bridged |-> bridged, pre |-> store, prior |-> Prior(answer),
                             providers |-> manager.providers]
              /\ fetch' = StartGetContext(manager.providers)
              /\ UNCHANGED <<answer, turns>>
         ELSE \E out \in {Responded(StorageHas(store, sessionId), created, received, first,
                                    switch, bridged, Skipped, Skipped, targetModality,
                                    sessionId, <<>>)} :
              /\ store' = out.sessions
              /\ answer' = [op |-> "processMessage", sessionId |-> sessionId,
                            input |-> input, response |-> out.response,
                            events |-> out.events, pre |-> store, prior |-> Prior(answer)]
              /\ UNCHANGED <<turns, waiting, fetch>>
  /\ fetched' = NoFetched
  /\ now' = now + 1
  /\ calls' = calls + 1
  /\ UNCHANGED manager
  /\ ContextFrame

\* one provider's getContext settles and its continuation in getContext runs
ProviderSettles ==
  /\ fetch.active
  /\ \E i \in Unsettled(fetch) :
       \E outcome \in ProviderOutcomes(fetch.called[i].id) :
          fetch' = SettleProvider(fetch, fetch.called[i], outcome)
  /\ UNCHANGED <<store, now, calls, answer, turns, manager, fetched, waiting>>
  /\ ContextFrame

\* Promise.all resolves: getContext returns its results and processMessage
\* goes on to its return
FinishProcessWithContext ==
  /\ fetch.active
  /\ Unsettled(fetch) = {}
  /\ waiting.active
  /\ \E externalContext \in {IF Len(fetch.results) > 0
                               THEN formatContext(manager.providers, fetch.results)
                               ELSE NoExternalContext} :
     \E assistant \in
          {prepareResponse(
             generateResponse(waiting.received.message.content.s,
               combineContextSources(
                 IF waiting.switch THEN waiting.bridged.text
                 ELSE getConversationSummary(waiting.first.sessions, waiting.sessionId),
                 externalContext),
               waiting.targetModality, agent.llmManager, NoPromise),
             waiting.targetModality, AgentRouterConfig, NoPromise, now, waiting.random)} :
     \E second \in {IF assistant.threw = "none"
                      THEN updateSession(store, waiting.sessionId,
                                         StoredMessage(assistant.message),
                                         waiting.targetModality, now)
                      ELSE Skipped} :
     \E out \in {Responded(waiting.existed, waiting.created, waiting.received, waiting.first,
                           waiting.switch, waiting.bridged, assistant, second,
                           waiting.targetModality, waiting.sessionId,
                           IF Len(fetch.results) > 0
                             THEN <<Event("external_context_retrieved", waiting.sessionId)>>
                             ELSE <<>>)} :
       /\ store' = out.sessions
       /\ answer' = [op |-> "processMessage", sessionId |-> waiting.sessionId,
                     input |-> waiting.input, response |-> out.response,
                     events |-> out.events, pre |-> waiting.pre, prior |-> waiting.prior]
       /\ turns' = IF out.response.success
                     THEN [turns EXCEPT ![waiting.sessionId] = @ + 1] ELSE turns
       /\ fetched' = [op |-> "getContext", called |-> fetch.called,
                      settled |-> fetch.settled, results |-> fetch.results,
                      handled |-> fetch.handled, providers |-> waiting.providers,
                      externalContext |-> externalContext]
  /\ fetch' = NoFetch
  /\ waiting' = NotWaiting
  /\ now' = now + 1
  /\ UNCHANGED <<calls, manager>>
  /\ ContextFrame

ContextNext ==
  \/ AddProvider
  \/ RemoveProvider
  \/ SetProviderEnabled
  \/ BeginProcessWithContext
  \/ ProviderSettles
  \/ FinishProcessWithContext

ContextSpec == ContextInit /\ [][ContextNext]_vars

----------------------------------------------------------------------------
(* What the claims speak of *)

Sessions == DOMAIN store
Bank(id) == store[id].context.memoryBank
Flow(id) == store[id].context.conversationFlow
Entities(id) == store[id].context.entities

\* the last call was `op`, on a session that was stored when it began
LastOn(op) == last.op = op /\ last.sessionId \in DOMAIN last.pre
\* ... and on a sessionId that had no stored session
LastOnAbsent(op) == last.op = op /\ last.sessionId \notin DOMAIN last.pre

Before == last.pre[last.sessionId]
After == store[last.sessionId]

\* `new` is `old` with `entry` appended, the oldest entry dropped if `old` was full
FifoAppended(old, new, entry, cap) ==
  IF Len(old) >= cap
    THEN new = Append(Tail(old), entry)
    ELSE new = Append(old, entry)

LastSwitched == LastOn("updateSession") /\ Before.currentModality # last.modality
LastBridged == LastOn("bridgeContextForModality") /\ Before.currentModality # last.modality
LastEchoed == LastOn("bridgeContextForModality") /\ Before.currentModality = last.modality

----------------------------------------------------------------------------
\* C1: in sequential use a session's memoryBank never holds more than 50
\* items, and after N updateSession calls on a fresh session it holds exactly
\* min(N, 50) items.
MemoryBankSize ==
  \A id \in Sessions :
    /\ Len(Bank(id)) <= 50
    /\ Len(Bank(id)) = Min(nUpdates[id], 50)

\* more than 50 turns were taken and the bank is at its cap
MemoryBankOverflowed ==
  \E id \in Sessions : nUpdates[id] > 50 /\ Len(Bank(id)) = 50 /\ ~Scripted

\* C2: conversationFlow never holds more than 20 entries; appending a
\* modality_switch or context_bridged entry to a flow of 20 drops exactly the
\* oldest entry, keeps the others in order and puts the new entry last.
FlowBoundedFifo ==
  /\ \A id \in Sessions : Len(Flow(id)) <= 20
  /\ (LastSwitched \/ LastBridged) =>
       LET old == Before.context.conversationFlow
           new == After.context.conversationFlow
       IN  /\ new[Len(new)].step = IF LastSwitched THEN "modality_switch" ELSE "context_bridged"
           /\ new[Len(new)].timestamp = now
           /\ IF Len(old) = 20
                THEN /\ Len(new) = 20
                     /\ \A i \in 1..19 : new[i] = old[i + 1]
                ELSE /\ Len(new) = Len(old) + 1
                     /\ \A i \in 1..Len(old) : new[i] = old[i]

\* a context_bridged entry was appended to a flow of 20 modality_switch entries
FlowEvicted ==
  /\ LastBridged
  /\ Len(Before.context.conversationFlow) = 20
  /\ Before.context.conversationFlow[20].step = "modality_switch"
  /\ ~Scripted

\* C3: once context.topic is set, no later updateSession or
\* bridgeContextForModality call changes it, whatever keywords the later
\* messages contain.
TopicWriteOnce ==
  /\ LastOn("updateSession") => ~Falsy(After.context.topic)
  /\ (LastOn("updateSession") \/ LastOn("bridgeContextForModality")) =>
       (~Falsy(Before.context.topic) => After.context.topic = Before.context.topic)

\* a message with account keywords arrived on a session whose topic was
\* order_management
TopicKeptAgainstKeywords ==
  /\ LastOn("updateSession")
  /\ Before.context.topic = "order_management"
  /\ Includes(last.message.content, "account")
  /\ ~Includes(ToLowerCase(last.message.content), "order")
  /\ After.context.topic = "order_management"

\* C4: context.entities never holds two entries with the same (name, type);
\* an e-mail address that is already recorded (by an earlier message, or
\* earlier in the same message) adds no entry and leaves the recorded entry,
\* its source modality included, as it was.
EntitiesFirstWins ==
  /\ \A id \in Sessions :
       \A i, j \in 1..Len(Entities(id)) :
         (Entities(id)[i].name = Entities(id)[j].name
            /\ Entities(id)[i].type = Entities(id)[j].type) => i = j
  /\ LastOn("updateSession") =>
       LET old == Before.context.entities
           new == After.context.entities
           emails == MatchEmails(last.message.content)
           Known(e) == \E k \in 1..Len(old) : old[k].name = e
           added == {emails[i] : i \in {k \in 1..Len(emails) : ~Known(emails[k])}}
       IN  /\ Len(new) = Len(old) + Cardinality(added)
           /\ \A k \in 1..Len(old) : new[k] = old[k]
           /\ \A k \in (Len(old) + 1)..Len(new) :
                /\ new[k].name \in added
                /\ new[k].type = "email"
                /\ new[k].source = last.message.modality

\* a voice message that names, twice, an address recorded from a text message
\* (and a new one once): the recorded entry is still the text one
EmailSeenAgain ==
  /\ LastOn("updateSession")
  /\ last.message.modality = "voice"
  /\ Len(MatchEmails(last.message.content)) = 3
  /\ Len(Before.context.entities) = 1
  /\ Before.context.entities[1].source = "text"
  /\ Len(After.context.entities) = 2
  /\ After.context.entities[1] = Before.context.entities[1]
  /\ After.context.entities[1].name = MatchEmails(last.message.content)[1]

\* C5: metadata.modalitySwitches counts the updateSession calls whose
\* modality differed from the currentModality they found, and each such call
\* appends exactly one modality_switch entry with that from and to (a call
\* that names the current modality appends none); text, voice, text, voice on
\* a fresh session gives 3.
SwitchesCounted ==
  /\ \A id \in Sessions : store[id].metadata.modalitySwitches = nSwitches[id]
  /\ LastOn("updateSession") =>
       IF Before.currentModality # last.modality
         THEN /\ After.metadata.modalitySwitches = Before.metadata.modalitySwitches + 1
              /\ FifoAppended(Before.context.conversationFlow,
                              After.context.conversationFlow,
                              [step |-> "modality_switch",
                               modality |-> last.modality,
                               timestamp |-> now,
                               data |-> [from |-> Before.currentModality,
                                         to |-> last.modality]],
                              20)
         ELSE /\ After.metadata.modalitySwitches = Before.metadata.modalitySwitches
              /\ After.context.conversationFlow = Before.context.conversationFlow

\* the turns text, voice, text, voice on a fresh session
FourTurnsThreeSwitches ==
  \E id \in Sessions :
    /\ nUpdates[id] = 4
    /\ store[id].totalMessages = 4
    /\ store[id].metadata.modalitySwitches = 3
    /\ store[id].currentModality = "voice"
    /\ Len(Flow(id)) = 3
    /\ \A i \in 1..3 : Flow(id)[i].timestamp = store[id].startTime + 1 + i
    /\ Flow(id)[1].data = [from |-> "text", to |-> "voice"]
    /\ Flow(id)[2].data = [from |-> "voice", to |-> "text"]
    /\ Flow(id)[3].data = [from |-> "text", to |-> "voice"]

\* C6: every updateSession(s, msg, m) on an existing session succeeds, leaves
\* currentModality = m (whatever msg.modality is) and totalMessages one
\* higher; a session that took no turn yet is in text; the modality is always
\* text or voice.
ModalityMachine ==
  /\ \A id \in Sessions :
       /\ store[id].currentModality \in {"text", "voice"}
       /\ nUpdates[id] = 0 => store[id].currentModality = "text"
  /\ LastOn("updateSession") =>
       /\ last.error = "none"
       /\ last.sessionId \in Sessions
       /\ After.currentModality = last.modality
       /\ After.totalMessages = Before.totalMessages + 1
       /\ After.lastActivity = now
       /\ last.session = After

\* a turn whose message was spoken but whose modality argument was text
TurnAgainstMessageModality ==
  /\ LastOn("updateSession")
  /\ last.message.modality = "voice"
  /\ last.modality = "text"
  /\ Before.currentModality = "voice"
  /\ After.currentModality = "text"

\* C7: createSession on a sessionId with no stored session stores and
\* returns a session in text with no messages, no switches and empty
\* entities, memoryBank and conversationFlow; on a sessionId that has a
\* stored session it returns that session and writes nothing, also after
\* turns were recorded.
CreateIsGetOrCreate ==
  /\ LastOnAbsent("createSession") =>
       /\ last.sessionId \in Sessions
       /\ last.session = After
       /\ After.sessionId = last.sessionId
       /\ After.currentModality = "text"
       /\ After.totalMessages = 0
       /\ After.metadata.modalitySwitches = 0
       /\ After.context.entities = <<>>
       /\ After.context.memoryBank = <<>>
       /\ After.context.conversationFlow = <<>>
       /\ last.writes = 1
  /\ LastOn("createSession") =>
       /\ store = last.pre
       /\ last.session = Before
       /\ last.writes = 0

\* createSession named a session that had already taken turns
CreatedAgainAfterTurns ==
  /\ LastOn("createSession")
  /\ Before.totalMessages > 0
  /\ Len(Before.context.memoryBank) > 0
  /\ last.session.totalMessages = Before.totalMessages

\* C8: updateSession and bridgeContextForModality on a sessionId with no
\* stored session fail with not-found after one storage read, write nothing,
\* do not create the session and leave the store as it was.
AbsentSessionRejected ==
  (LastOnAbsent("updateSession") \/ LastOnAbsent("bridgeContextForModality")) =>
    /\ last.error = "not_found"
    /\ last.reads = 1
    /\ last.writes = 0
    /\ last.sessionId \notin Sessions
    /\ store = last.pre

\* a turn was sent to a session that had been destroyed
TurnOnDestroyedSession ==
  /\ LastOnAbsent("updateSession")
  /\ last.error = "not_found"
  /\ now > 2

\* the index of the newest memory item outside `taken`, the first of them in
\* bank order when several share the timestamp; 0 when every item is taken
RECURSIVE NewestAmong(_, _, _, _)
NewestAmong(bank, taken, i, best) ==
  IF i > Len(bank) THEN best
  ELSE NewestAmong(bank, taken, i + 1,
         IF i \notin taken /\ (best = 0 \/ bank[i].timestamp > bank[best].timestamp)
           THEN i ELSE best)

\* the contents of the (up to) 3 newest memory items, newest first
NewestThree(bank) ==
  LET a == NewestAmong(bank, {}, 1, 0)
      b == NewestAmong(bank, {a}, 1, 0)
      c == NewestAmong(bank, {a, b}, 1, 0)
  IN  IF a = 0 THEN << >>
      ELSE IF b = 0 THEN << bank[a].content >>
      ELSE IF c = 0 THEN << bank[a].content, bank[b].content >>
      ELSE << bank[a].content, bank[b].content, bank[c].content >>

\* C9: bridgeContextForModality(s, m) with m the session's currentModality
\* returns the contents of the (up to) 3 newest memory items, newest first,
\* joined by newlines, and leaves the stored session as it was: no flow
\* entry, no storage write.
SameModalityBridgeReadsOnly ==
  LastEchoed =>
    /\ last.error = "none"
    /\ last.text = Join(NewestThree(Before.context.memoryBank), "\n")
    /\ last.writes = 0
    /\ store = last.pre

\* a same-modality bridge over a bank of more than 3 items that is not held
\* in newest-first order
EchoOverUnsortedBank ==
  /\ LastEchoed
  /\ Len(Before.context.memoryBank) > 3
  /\ \E i \in 1..(Len(Before.context.memoryBank) - 1) :
       Before.context.memoryBank[i].timestamp < Before.context.memoryBank[i + 1].timestamp
  /\ last.text # ""

\* C10: bridgeContextForModality(s, m) with m other than the currentModality
\* appends exactly one context_bridged entry {from, to, bridgeType
\* "<from>_to_<to>"} and persists the session, also when no memory item of
\* the source modality exists; what it returns is non-empty whenever the
\* bank holds an item with non-empty content.
CrossModalityBridgeMarks ==
  LastBridged =>
    LET from == Before.currentModality
        to == last.modality
        entry == [step |-> "context_bridged",
                  modality |-> to,
                  timestamp |-> now,
                  data |-> [from |-> from, to |-> to,
                            bridgeType |-> IF from = "text" THEN "text_to_voice"
                                                            ELSE "voice_to_text"]]
        bank == Before.context.memoryBank
    IN  /\ last.error = "none"
        /\ last.writes = 1
        /\ FifoAppended(Before.context.conversationFlow,
                        After.context.conversationFlow, entry, 20)
        /\ (\E i \in 1..Len(bank) : bank[i].content # "") => last.text # ""

\* a cross-modality bridge that found no memory item of the source modality
\* and fell back to the recent context
BridgedByFallback ==
  /\ LastBridged
  /\ Before.context.memoryBank # <<>>
  /\ \A i \in 1..Len(Before.context.memoryBank) :
       Before.context.memoryBank[i].modality # Before.currentModality
  /\ \E i \in 1..Len(Before.context.memoryBank) :
       Before.context.memoryBank[i].content # ""
  /\ last.text # ""
  /\ After.context.conversationFlow[Len(After.context.conversationFlow)].data.bridgeType
       = "voice_to_text"

\* C14: destroySession on a stored session returns true and removes it;
\* from then on getSession returns null and updateSession fails with not
\* found, and only a createSession call stores the session again;
\* destroySession on a sessionId with no stored session returns false and
\* changes nothing.
DestroyedUntilCreated ==
  /\ LastOn("destroySession") =>
       /\ last.flag = TRUE
       /\ last.error = "none"
       /\ last.sessionId \notin Sessions
  /\ LastOnAbsent("destroySession") =>
       /\ last.flag = FALSE
       /\ last.error = "none"
       /\ store = last.pre
  /\ LastOnAbsent("getSession") =>
       /\ last.session = Null
       /\ store = last.pre
  /\ LastOn("getSession") =>
       /\ last.session = Before
       /\ store = last.pre
  /\ LastOnAbsent("updateSession") =>
       /\ last.error = "not_found"
       /\ last.sessionId \notin Sessions
  /\ \A id \in Sessions \ DOMAIN last.pre :
       last.op = "createSession" /\ last.sessionId = id

\* a session that had taken turns was destroyed, and a getSession after that
\* returned null
NullAfterDestroy ==
  /\ LastOnAbsent("getSession")
  /\ last.session = Null
  /\ nUpdates[last.sessionId] > 0
  /\ now > 3

----------------------------------------------------------------------------
\* a outranks b: higher importance, or the same importance and newer
Outranks(a, b) ==
  \/ a.importance > b.importance
  \/ a.importance = b.importance /\ a.timestamp > b.timestamp

\* no two of the items share (importance, timestamp)
DistinctKeys(items) ==
  Cardinality({<<items[i].importance, items[i].timestamp>> : i \in 1..Len(items)}) = Len(items)

BankIds(id) == {Bank(id)[i].id : i \in 1..Len(Bank(id))}

----------------------------------------------------------------------------
\* the calls of callers p and q were updateSession calls on the same stored
\* session, both read it before either wrote, and p wrote first
RacedTurns(p, q) ==
  /\ inflight[p].pc = "done" /\ inflight[q].pc = "done"
  /\ inflight[p].op = "updateSession" /\ inflight[q].op = "updateSession"
  /\ inflight[p].sessionId = inflight[q].sessionId
  /\ inflight[p].snapshot # Null /\ inflight[q].snapshot # Null
  /\ inflight[p].readAt < inflight[p].wroteAt
  /\ inflight[q].readAt < inflight[p].wroteAt
  /\ inflight[p].wroteAt < inflight[q].wroteAt

\* C12: when two updateSession calls on one session both read the stored
\* session before either writes, neither reports an error and the stored
\* session holds the later writer's turn only: totalMessages is one more than
\* what the later writer read (not two), the later writer's memory item is in
\* the memoryBank and the earlier writer's is not.
LastWriteWins ==
  \A p, q \in Callers :
    RacedTurns(p, q) =>
      LET id == inflight[q].sessionId
      IN  /\ inflight[p].error = "none"
          /\ inflight[q].error = "none"
          /\ id \in Sessions
          /\ store[id].totalMessages = inflight[q].snapshot.totalMessages + 1
          /\ inflight[q].message.id \in BankIds(id)
          /\ inflight[p].message.id \notin BankIds(id)

\* two turns raced on a session that both calls read with the same count of
\* messages: the count has grown by one and the first writer's item is gone
TurnLost ==
  \E p, q \in Callers :
    /\ RacedTurns(p, q)
    /\ inflight[p].snapshot.totalMessages = inflight[q].snapshot.totalMessages
    /\ store[inflight[q].sessionId].totalMessages = inflight[p].snapshot.totalMessages + 1
    /\ inflight[p].message.id # inflight[q].message.id
    /\ Len(Bank(inflight[q].sessionId)) = Len(inflight[p].snapshot.context.memoryBank) + 1

\* C13: calls on one session do not see or touch another session.  For
\* every session whose own calls did not overlap each other, whatever calls
\* on the other session ran in between: the stored session (or its absence)
\* is what the session's calls alone, in the same order, produce, and the
\* call that returned last returned what it returns when run alone.
SessionsIndependent ==
  /\ \A id \in RaceSessions \ raced :
       /\ id \in Sessions <=> id \in DOMAIN solo[id]
       /\ id \in Sessions => Deref(objects, store[id]) = solo[id][id]
       /\ DOMAIN solo[id] \subseteq {id}
  /\ (echo # NoEcho /\ echo.sessionId \notin raced) => echo.actual = echo.alone

\* a turn on one session returned after a call on the other session had
\* stored that other session in between the turn's read and its write
TurnAcrossOtherSession ==
  \E p \in Callers :
    /\ inflight[p].pc = "done"
    /\ inflight[p].op = "updateSession"
    /\ inflight[p].crossed
    /\ inflight[p].error = "none"
    /\ inflight[p].sessionId \notin raced
    /\ echo.sessionId = inflight[p].sessionId
    /\ \E id \in Sessions \ {inflight[p].sessionId} :
         store[id].startTime > inflight[p].readAt

\* processMessage returned last, for a voice input
VoiceProcessed == reply.op = "processMessage" /\ reply.modality = "voice"

\* the configuration the call that returned last was made under
MocksEnabled == reply.config["useMockWhenUnavailable"] = JsTrue
MocksDisabled == reply.config["useMockWhenUnavailable"] = JsFalse

\* C15: processMessage for a voice input, called with no speech-to-text
\* collaborator configured: with useMockWhenUnavailable true it returns a
\* user message of modality voice whose content is the mock transcription
\* (the input itself when the input is a string, the fixed sentence for any
\* other input); with useMockWhenUnavailable false it fails.  The mock
\* transcription is a function of the input: no input was ever given two
\* different transcriptions, whatever the clock, the message id and the
\* state of the router were.
MockTranscriptionWithoutStt ==
  /\ (VoiceProcessed /\ ~hasSpeechToText(reply.config) /\ MocksEnabled) =>
        /\ reply.outcome.threw = "none"
        /\ reply.outcome.message.role = "user"
        /\ reply.outcome.message.modality = "voice"
        /\ reply.outcome.message.content =
             (IF reply.input.t = "string" THEN reply.input ELSE JsString(MockTranscript))
  /\ (VoiceProcessed /\ ~hasSpeechToText(reply.config) /\ MocksDisabled) =>
        reply.outcome.threw # "none"
  /\ \A a, b \in heard : a[1] = b[1] => a[2] = b[2]

\* a binary voice input was given the mock transcription by a router without
\* a speech-to-text collaborator, after another input had been given one
BufferMockTranscribed ==
  /\ VoiceProcessed
  /\ ~hasSpeechToText(reply.config)
  /\ MocksEnabled
  /\ reply.input = JsBinary("Buffer", 64000)
  /\ reply.outcome.threw = "none"
  /\ Cardinality(heard) >= 2

\* prepareResponse returned last, for a voice response
VoicePrepared == reply.op = "prepareResponse" /\ reply.modality = "voice"

\* the call that returned last had its collaborator reject: transcribe for
\* processMessage, synthesize for prepareResponse
CollaboratorRejected == (VoiceProcessed \/ VoicePrepared) /\ reply.rejected

\* C16: when the configured speech-to-text collaborator (processMessage,
\* voice) or text-to-speech collaborator (prepareResponse, voice) rejects:
\* with mock fallback enabled the call still succeeds, with synthetic
\* output; with mock fallback disabled the call fails.
RejectionMaskedByMocks ==
  /\ (CollaboratorRejected /\ MocksEnabled) =>
        reply.outcome.threw = "none" /\ reply.outcome.synthetic
  /\ (CollaboratorRejected /\ MocksDisabled) => reply.outcome.threw # "none"

\* C17: whenever processMessage or prepareResponse has returned synthetic
\* output in place of a collaborator's result, under a configuration that is
\* still the router's, getCapabilities().usingMocks is true.
MocksDiscoverable ==
  (/\ reply.op \in {"processMessage", "prepareResponse"}
   /\ reply.outcome.threw = "none"
   /\ reply.outcome.synthetic
   /\ reply.config = router.config)
    => getCapabilities(router.config).usingMocks

\* what the structure of an input makes it: voice for a Buffer, ArrayBuffer
\* or Uint8Array, for an object with type 'audio', with a mimeType starting
\* with 'audio/' or with a truthy audio-data field; text for everything else
StructuralModality(input) ==
  IF \/ input.t = "object" /\ input.class \in {"Buffer", "ArrayBuffer", "Uint8Array"}
     \/ /\ input.t = "object"
        /\ input.class = "Object"
        /\ \/ GetField(input, "type") = JsString("audio")
           \/ /\ GetField(input, "mimeType").t = "string"
              /\ StartsWith(GetField(input, "mimeType").s, "audio/")
           \/ \E i \in DOMAIN AudioFields : Truthy(GetField(input, AudioFields[i]))
    THEN "voice"
    ELSE "text"

\* C19: detectModality classifies by structure only: it returns voice for
\* a binary buffer, for an object with type 'audio', with a mimeType
\* starting with 'audio/' or with a truthy audio-data field, and text for
\* everything else, every string and null and undefined included.
ClassifiedByStructure ==
  reply.op = "detectModality" =>
    /\ reply.outcome.threw = "none"
    /\ reply.outcome.modality = StructuralModality(reply.input)

\* C18: bridgeContext is pure and deterministic: it returns its context
\* argument unchanged when source and target modality are equal, any two
\* calls with equal arguments have returned equal strings, and the cache
\* of the bridge is empty after every call.
BridgeContextPure ==
  /\ \A call \in bridgeLog :
       call.sourceModality = call.targetModality => call.result = call.context
  /\ \A a, b \in bridgeLog :
       (/\ a.context = b.context
        /\ a.sourceModality = b.sourceModality
        /\ a.targetModality = b.targetModality) => a.result = b.result
  /\ bridge.cache = EmptyCache

\* the agent's processMessage returned last, with success
Answered == answer.op = "processMessage" /\ answer.response.success

\* totalMessages of the session before the call that returned last (0 for a
\* session the call created)
MessagesBefore ==
  IF answer.sessionId \in DOMAIN answer.pre
    THEN answer.pre[answer.sessionId].totalMessages ELSE 0

\* C20: each successful ContextualAgent.processMessage call advances the
\* session's totalMessages by exactly one: the sessionState it returns has
\* one message more than the session had before the call, and after two
\* successful calls on a new session the second returns totalMessages = 2.
OneMessagePerCall ==
  Answered =>
    /\ answer.response.sessionState.totalMessages = MessagesBefore + 1
    /\ turns[answer.sessionId] = 2 => answer.response.sessionState.totalMessages = 2

\* the agent's processMessage returned last, for a text string with target
\* modality text, and the call that returned before it was a successful
\* processMessage of the same session with target modality voice
TextAfterVoice ==
  /\ answer.op = "processMessage"
  /\ answer.input.t = "string"
  /\ answer.response.modalityUsed = "text"
  /\ answer.prior.op = "processMessage"
  /\ answer.prior.success
  /\ answer.prior.targetModality = "voice"

\* C21: when a processMessage call with target modality voice is followed on
\* the same session by a processMessage call with a text string input and
\* target modality text, the second response succeeds with modalityUsed =
\* text and contextBridgeTriggered = true.
BridgeTriggeredOnTextAfterVoice ==
  TextAfterVoice =>
    /\ answer.response.success
    /\ answer.response.modalityUsed = "text"
    /\ answer.response.contextBridgeTriggered

\* the event types the agent emitted during the call that returned last
Emitted == {answer.events[i].type : i \in 1..Len(answer.events)}

\* switchModality(m, s) returned last, for a session s that was stored with a
\* current modality other than m
SwitchedAway ==
  /\ answer.op = "switchModality"
  /\ answer.sessionId \in DOMAIN answer.pre
  /\ answer.pre[answer.sessionId].currentModality # answer.response.modalityUsed

\* C22: switchModality(m, s) on an existing session whose current modality is
\* not m emits a modality_switched event and a context_bridged event before
\* it returns, in both directions of the switch.
SwitchEmitsEvents ==
  SwitchedAway => {"modality_switched", "context_bridged"} \subseteq Emitted

\* the agent's processMessage returned last, after the getContext it awaited
ContextFetched == fetched.op = "getContext" /\ answer.op = "processMessage"

\* the providers of the getContext that returned last whose call settled in
\* the given way
SettledAs(kind) ==
  {fetched.settled[i].provider :
     i \in {j \in 1..Len(fetched.settled) : fetched.settled[j].outcome.kind = kind}}

\* C23: a context provider whose getContext rejects does not make
\* processMessage fail: the response has success = true, the failure was
\* passed to the error handler with its provider, and the results of the
\* other providers are still returned by getContext.
ProviderFailureContained ==
  (ContextFetched /\ SettledAs("rejected") # {}) =>
    /\ answer.response.success
    /\ {fetched.handled[i].provider : i \in 1..Len(fetched.handled)} = SettledAs("rejected")
    /\ {fetched.results[i].provider : i \in 1..Len(fetched.results)} = SettledAs("result")

\* a provider rejected, another gave a result, and processMessage succeeded
\* with that result in its external context
FailedBesideResult ==
  /\ ContextFetched
  /\ SettledAs("rejected") # {}
  /\ SettledAs("result") # {}
  /\ answer.response.success
  /\ fetched.externalContext # ""

\* the ids of the providers getContext called that resolved to a context, in
\* the order it called them (priority descending)
ResolvedByPriority ==
  LET resolved == SelectSeq(fetched.called, LAMBDA p : p.id \in SettledAs("result"))
  IN  [i \in 1..Len(resolved) |-> resolved[i].id]

\* C30: getContext returns one result for each enabled provider whose
\* getContext resolved to a non-null value, ordered by provider priority
\* descending, whatever the order in which the providers' calls complete;
\* disabled providers contribute no result.
ResultsByPriority ==
  fetched.op = "getContext" =>
    /\ [i \in 1..Len(fetched.results) |-> fetched.results[i].provider] = ResolvedByPriority
    /\ \A i \in 1..Len(fetched.results) :
         \E j \in 1..Len(fetched.providers) :
            /\ fetched.providers[j].id = fetched.results[i].provider
            /\ Enabled(fetched.providers[j])

\* the callers of the router whose processMessage is in flight
RouterInFlight == {p \in DOMAIN pending : pending[p] # IdleRouterCall}

\* C24: the isProcessing flag gives no mutual exclusion: whenever a
\* processMessage call finishes the flag reads false, whether or not another
\* call is still in flight, and once every call has finished the flag is
\* false.
FlagIsNoLock ==
  /\ [](RouterInFlight = {} => ~router.isProcessing)
  /\ [][(\E p \in RouterInFlight : pending'[p] = IdleRouterCall) => ~router'.isProcessing]_vars

\* a second call started while a first was in flight, one of them has
\* finished, and the flag reads false although the other is in flight
FlagFalseInFlight == RouterInFlight # {} /\ ~router.isProcessing

\* the createSession call of caller p read no session and now persists
CreatePersists(p) ==
  /\ inflight[p].pc = "read"
  /\ inflight[p].op = "createSession"
  /\ inflight[p].snapshot = Null
  /\ inflight'[p].pc = "done"

\* C25: createSession is a get-before-create that is not atomic.  A
\* createSession call that read no session builds and persists a new one
\* when it resumes, whatever was stored since it read: the session stored
\* after its persist is the new one, with no message and no memory item,
\* also when another createSession persisted the session in between and an
\* updateSession recorded a turn on it.
CreateOverwrites ==
  [][\A p \in Callers :
       CreatePersists(p) =>
         LET id == inflight[p].sessionId
         IN  /\ id \in DOMAIN store'
             /\ store'[id].startTime = now'
             /\ store'[id].totalMessages = 0
             /\ store'[id].currentModality = "text"
             /\ store'[id].context.memoryBank = <<>>
             /\ objects'.conversationFlow[store'[id].context.conversationFlow] = <<>>
             /\ objects'.metadata[store'[id].metadata].modalitySwitches = 0]_vars

\* two createSession calls read the absent session before either persisted;
\* the first persisted, an updateSession recorded a turn on that session,
\* and the second persist has replaced it: the turn is gone
TurnOverwrittenByCreate ==
  \E p, q \in Callers :
    /\ inflight[q].pc = "done" /\ inflight[q].op = "createSession"
    /\ inflight[q].snapshot = Null
    /\ inflight[p].pc = "done" /\ inflight[p].op = "updateSession"
    /\ inflight[p].sessionId = inflight[q].sessionId
    /\ inflight[p].error = "none"
    /\ inflight[p].snapshot # Null
    /\ inflight[q].readAt < inflight[p].snapshot.startTime
    /\ inflight[p].wroteAt < inflight[q].wroteAt
    /\ inflight[q].sessionId \in Sessions
    /\ store[inflight[q].sessionId].totalMessages = 0
    /\ inflight[p].message.id \notin BankIds(inflight[q].sessionId)
    /\ store[inflight[q].sessionId].startTime = inflight[q].wroteAt

\* what getSession returns for every stored session
StoredView(sessions, objs) == [id \in DOMAIN sessions |-> Deref(objs, sessions[id])]

\* C26: the sessions handed to the caller are isolated snapshots: the
\* object a caller holds from createSession, getSession or updateSession
\* reads as it did when it was handed over (or as the caller has since
\* written it) whatever calls were made on its session afterwards, and a
\* caller's write to the metadata, the entities, the conversationFlow or the
\* memoryBank of the object it holds leaves what getSession returns as it
\* was.
SnapshotsIsolated ==
  /\ [](handed.from # "none" => Deref(objects, handed.session) = handed.seen)
  /\ [][handed'.touched = handed.touched + 1 =>
          StoredView(store', objects') = StoredView(store, objects)]_vars

\* the items of a memoryBank, whatever their order
Items(memoryBank) == {memoryBank[i] : i \in 1..Len(memoryBank)}

\* C27: bridgeContextForModality is not a modality switch.  Every call
\* leaves the stored session's currentModality, totalMessages,
\* metadata.modalitySwitches, topic, entities and set of memory items as they
\* were; a call for the current modality leaves the stored session as it
\* was; a call for the other modality appends one context_bridged entry to
\* the flow and changes nothing else than the flow (and the order the
\* memory items are kept in), so that the same call made again is again a
\* call for the other modality and appends one more entry.
BridgeIsNoSwitch ==
  /\ LastOnAbsent("bridgeContextForModality") => store = last.pre
  /\ LastOn("bridgeContextForModality") =>
       /\ After.currentModality = Before.currentModality
       /\ After.totalMessages = Before.totalMessages
       /\ After.metadata.modalitySwitches = Before.metadata.modalitySwitches
       /\ After.context.topic = Before.context.topic
       /\ After.context.entities = Before.context.entities
       /\ Items(After.context.memoryBank) = Items(Before.context.memoryBank)
       /\ Len(After.context.memoryBank) = Len(Before.context.memoryBank)
       /\ [After EXCEPT !.context.conversationFlow = Before.context.conversationFlow,
                        !.context.memoryBank = Before.context.memoryBank] = Before
  /\ LastEchoed => After = Before
  /\ LastBridged =>
       LET old == Before.context.conversationFlow
           new == After.context.conversationFlow
       IN  /\ FifoAppended(old, new, new[Len(new)], FlowCap)
           /\ new[Len(new)].step = "context_bridged"
           /\ new[Len(new)].modality = last.modality
           /\ new[Len(new)].data = BridgeData(Before.currentModality, last.modality)
           /\ After.currentModality # last.modality

\* the same call for the other modality was made twice in a row: the flow
\* ends with the two context_bridged entries and the current modality is
\* still the one both calls found
BridgedTwice ==
  /\ LastBridged
  /\ LET new == After.context.conversationFlow
         old == Before.context.conversationFlow
     IN  /\ Len(old) >= 1
         /\ old[Len(old)].step = "context_bridged"
         /\ old[Len(old)].modality = last.modality
         /\ old[Len(old)].data = BridgeData(Before.currentModality, last.modality)
         /\ new = Append(old, new[Len(new)])
         /\ After.context.memoryBank # <<>>

\* the last call was an updateSession on a session whose memoryBank held 50
\* items, each of strictly higher importance than the message of the call
LastOutranked ==
  /\ LastOn("updateSession")
  /\ Len(Before.context.memoryBank) = 50
  /\ \A i \in 1..50 :
       Before.context.memoryBank[i].importance > calculateImportance(last.message)

Returning(p) == inflight[p].pc = "read" /\ inflight'[p].pc = "done"

\* the call of caller p read its session stored when it began, and is one
\* that persists the copy it read: an updateSession, or a
\* bridgeContextForModality for another modality than the copy's
WritesBack(p) ==
  /\ inflight[p].snapshot # Null
  /\ \/ inflight[p].op = "updateSession"
     \/ /\ inflight[p].op = "bridgeContextForModality"
        /\ inflight[p].snapshot.currentModality # inflight[p].modality

\* C29 as stated: a destroyed session stays destroyed in every interleaving
\* with in-flight updateSession and bridgeContextForModality calls: a session
\* that is not stored comes to be stored only by a createSession call, never
\* by a call that read it before it was deleted.
DestroyedStaysDestroyed ==
  [][\A id \in RaceSessions :
       (id \notin DOMAIN store /\ id \in DOMAIN store') =>
         \E p \in Callers :
           /\ Returning(p)
           /\ inflight[p].sessionId = id
           /\ inflight[p].op = "createSession"]_vars

\* C29: a destroyed session stays destroyed until createSession stores it
\* again or a call that was in flight on it returns: an updateSession, or a
\* bridgeContextForModality for another modality, that read the session
\* before destroySession deleted it stores its copy when it resumes, so that
\* getSession returns a session again; no other call brings a session back.
DestroyedUntilWrittenBack ==
  /\ [][\A id \in RaceSessions :
          (id \notin DOMAIN store /\ id \in DOMAIN store') =>
            \E p \in Callers :
              /\ Returning(p)
              /\ inflight[p].sessionId = id
              /\ \/ inflight[p].op = "createSession" /\ inflight[p].snapshot = Null
                 \/ WritesBack(p)]_vars
  /\ [][\A p \in Callers :
          (Returning(p) /\ WritesBack(p)) =>
            /\ inflight[p].sessionId \in DOMAIN store'
            /\ inflight'[p].error = "none"
            /\ store'[inflight[p].sessionId].totalMessages =
                  inflight[p].snapshot.totalMessages
                    + (IF inflight[p].op = "updateSession" THEN 1 ELSE 0)]_vars

\* destroySession deleted a session while an updateSession that had read
\* it was in flight, and the updateSession has returned: the session is
\* stored again, with the turn
WrittenBackAfterDestroy ==
  \E p, q \in Callers :
    /\ inflight[q].pc = "done" /\ inflight[q].op = "destroySession"
    /\ inflight[p].pc = "done" /\ inflight[p].op = "updateSession"
    /\ inflight[p].sessionId = inflight[q].sessionId
    /\ inflight[p].snapshot # Null
    /\ inflight[p].readAt < inflight[q].wroteAt
    /\ inflight[q].wroteAt + 1 = inflight[p].wroteAt
    /\ inflight[p].error = "none"
    /\ inflight[p].sessionId \in Sessions
    /\ inflight[p].message.id \in BankIds(inflight[p].sessionId)
    /\ store[inflight[p].sessionId].startTime < inflight[q].wroteAt

====
